---- MODULE Spec2Model ----
(***************************************************************************)
(* Model of the crawl engine (engine/advanced_crawler.py, SmartCrawler)    *)
(* together with the store and indexer it writes to (engine/db.py,         *)
(* SearchDatabase and OptimizedSearchDatabase; engine/search.py,           *)
(* SearchEngine; engine/enhanced_search_engine.py, EnhancedSearchEngine).  *)
(*                                                                         *)
(* Spec is the crawler with its I/O loop and workers.  StoreSpec is the    *)
(* engines' calls on one database file, FrontierSpec a sequence of jobs    *)
(* without stop requests, SnapshotSpec a stopped crawler with its state    *)
(* file.  LockSpec splits stop_crawl and the worker's 200 branch at the    *)
(* job lock.  SnippetSpec, CacheSpec, HybridSpec, QuerySpec and LinkSpec   *)
(* apply one method each (_generate_snippet, the page cache,               *)
(* hybrid_search, EnhancedSearchEngine.search, _add_links_to_queue) to     *)
(* drawn arguments.  DepthSpec splits the worker's 200 branch at the test  *)
(* of the depth, DomainSpec sets importances on the domains of one         *)
(* database file, MutexSpec runs the methods that take the job lock on     *)
(* the I/O loop's call stack, and LiveSpec is FrontierSpec with the health *)
(* check under fair scheduling.                                            *)
(*                                                                         *)
(* Threads: the I/O loop runs crawl(), stop_crawl(), force_stop(), the     *)
(* armed force-stop timer and the health check, one at a time; every       *)
(* call of crawl() that gets that far starts one worker thread running     *)
(* _crawl_thread.  The worker never takes the job lock, so its steps       *)
(* interleave with the I/O loop's and with other workers'.  A worker step  *)
(* is the thread's entry, one iteration up to the sending of the page      *)
(* request, the response with its processing, or the exit from the loop.   *)
(*                                                                         *)
(* Time: a timestamp t kept by the program is represented by its age, the  *)
(* seconds from t to the last reading of the clock, saturated at AgeCap.   *)
(* The clock is read by the rate limiter only, which finds it advanced by  *)
(* any number of seconds since the previous reading.                       *)
(***************************************************************************)
EXTENDS Integers, Sequences, FiniteSets, TLC

\* ------------------------------------------------------------------ bounds
\* Number of worker threads crawl() may start in one behaviour.
MaxWorkers == 2
\* Largest depth argument given to crawl().
MaxDepth == 1
\* The safety limit of _crawl_thread (10000 in the source), scaled down.
max_urls == 3
\* Number of force-stop timers that may be armed and not yet fired.
MaxTimers == 1
\* The Crawl-delay a robots.txt of the modelled web may declare (seconds).
CrawlDelay == 2

\* --------------------------------------------------------- program constants
\* interval_ms of _setup_thread_monitor.
interval_ms == 30000
\* The call _setup_thread_monitor leaves pending at construction.
SetupThreadMonitor == <<interval_ms \div 1000>>
min_crawl_delay == 1
MaxLinksPerPage == 100
DefaultMaxDepth == 2
DefaultSourceImportance == 5
MinPriority == 1
MaxPriority == 100

AgeCap == CrawlDelay

\* A dict: a function whose domain is the set of its keys.
EmptyMap == [k \in {} |-> 0]
MapPut(f, k, v) == [x \in DOMAIN f \cup {k} |-> IF x = k THEN v ELSE f[x]]

Min(a, b) == IF a < b THEN a ELSE b
Max(a, b) == IF a > b THEN a ELSE b

\* ------------------------------------------------------------ the modelled web
\* URLs are numbered in the order of their strings (the order in which the
\* heap compares entries of equal priority):
\*   1 ftp://h1/x   2 http://h1/a   3 http://h1/b?x=1&y=2   4 http://h1/f.pdf
\*   5 http://h1/g  6 http://h1/p?k1=1&...&k12=1 (12 parameters)  7 http://h1/q
\* /g, /p and /q are a part of the site that /a and /b do not link to.
Urls == 1..7
NoUrl == 0
Seeds == {2}
Hosts == {"h1"}

\* urlparse(url).netloc
Netloc(u) == "h1"
\* url.startswith(('http://', 'https://'))
IsHttp(u) == u # 1
\* path.endswith(('.pdf', '.jpg', ...))
BadExtension(u) == u = 4
\* len(parsed_url.path.split('/'))
PathSegments(u) == 2
\* len(parsed_url.query.split('&')) if parsed_url.query else 0
QueryParams(u) == IF u = 3 THEN 2 ELSE IF u = 6 THEN 12 ELSE 0

\* extract_links(html, url): the <a href> targets of the page at u, in order.
Links(u) ==
  CASE u = 2 -> <<3, 4, 1, 2>>
    [] u = 3 -> <<2>>
    [] u = 5 -> <<6, 6>>
    [] u = 6 -> <<7>>
    [] OTHER -> <<>>

\* What the pages serve: (title, body) as sequences of raw words.  /a and
\* /b?x=1&y=2 are mirrors of one document; /b?x=1&y=2 may also come without
\* text.
PageA == [title |-> <<"T">>, body |-> <<"Hello", "the", "world", "hello">>]
EmptyPage == [title |-> <<"T">>, body |-> <<>>]
Pages(u) == IF u = 3 THEN {PageA, EmptyPage} ELSE {PageA}

\* Outcomes of requests.get + processing of one URL: the seed's server
\* answers with the page or fails, the other page can also be of another
\* content type, fail to parse or fail to be stored; /g, /p and /q answer
\* with the page or fail.
FetchOutcomes(u) ==
  IF u = 2 THEN {"html", "net_error", "http_error"}
  ELSE IF u = 3 THEN {"html", "nonhtml", "parse_error", "store_error"}
  ELSE {"html", "net_error"}

\* robots.txt of a host as the parser holds it: the URLs it disallows for
\* user-agent * and its Crawl-delay (0: none declared).  A failed read
\* (URLError) gives the permissive parser: nothing disallowed, no delay.
RobotsVariants ==
  { [disallow |-> {}, delay |-> 0],
    [disallow |-> {3}, delay |-> CrawlDelay],
    [disallow |-> {2, 3}, delay |-> 0] }

\* ------------------------------------------------------------------ tokenizer
\* text.lower() on one word.
Lower(w) ==
  CASE w = "Hello" -> "hello"
    [] w = "T" -> "t"
    [] OTHER -> w
OneCharWords == {"t", "x", "a"}
Stopwords ==
  {"a", "an", "the", "and", "or", "but", "is", "are", "in", "on", "of", "to",
   "for", "with"}

RECURSIVE Tokenize(_)
Tokenize(text) ==
  IF text = <<>> THEN <<>>
  ELSE LET w == Lower(Head(text)) IN
       IF w \in OneCharWords \/ w \in Stopwords
       THEN Tokenize(Tail(text))
       ELSE <<w>> \o Tokenize(Tail(text))

\* ------------------------------------------------------------------- frontier
\* PriorityQueue of (priority, (url, depth)); kept as the sorted sequence of
\* its entries, so that get() is Head: the heap returns its least tuple.
EntryLess(a, b) ==
  \/ a[1] < b[1]
  \/ a[1] = b[1] /\ a[2] < b[2]
  \/ a[1] = b[1] /\ a[2] = b[2] /\ a[3] < b[3]

RECURSIVE Put(_, _)
Put(q, e) ==
  IF q = <<>> THEN <<e>>
  ELSE IF EntryLess(e, Head(q)) THEN <<e>> \o q
  ELSE <<Head(q)>> \o Put(Tail(q), e)

\* A first-in first-out frontier.
PutAllAtEnd(q, es) == q \o es

\* One put per entry of es, on a sorted q: the entries of both, sorted (two
\* entries that compare equal are the same tuple).
PutAll(q, es) == SortSeq(q \o es, EntryLess)

DomainImportance(h) == 0

compute_url_priority(u, depth, source_importance) ==
  Max(MinPriority,
      Min(MaxPriority,
          depth * 10 - DomainImportance(Netloc(u)) + QueryParams(u)
            + (PathSegments(u) \div 2) - source_importance))

VARIABLES
  is_crawling,          \* self.is_crawling
  crawler_thread,       \* self.crawler_thread: the worker last started (0: None)
  crawl_stats,          \* self.crawl_stats
  visited_urls,         \* self.visited_urls
  queue,                \* self.queue (entries, sorted)
  unfinished,           \* self.queue.unfinished_tasks
  force_recrawl,        \* self.force_recrawl
  domain_access_times,  \* self.domain_access_times, as ages
  robots_cache,         \* self.robots_cache
  content_fingerprints, \* self.content_fingerprints
  state_file,           \* crawler_state.gz: <<>> or <<snapshot>>
  timers,               \* force-stop timers armed by stop_crawl, not yet fired
  io_pc,                \* where the I/O loop is inside crawl()
  last_event,           \* status tag of the last message given to _broadcast_update
  last_stats,           \* <<its "stats" entry>>, <<>> when it has none
  pc,                   \* each worker thread's position in _crawl_thread
  cur,                  \* each worker's popped (url, depth)
  urls_processed,       \* each worker's urls_processed
  documents,            \* table documents
  index_entries,        \* table index_entries
  metadata,             \* table metadata
  crawler_visits,       \* table crawler_visits
  fetches,              \* per host: age of the last page fetch and the gap
                        \* between the last two (history)
  stop_requested,       \* stop_crawl() asked the current job to stop (history)
  cache,                \* table cache: the expiry instant of each cached url
  compressed_content,   \* table compressed_content (the doc_ids of its rows)
  fts_index,            \* table fts_index: rowid, url, title and content of its rows
  embeddings,           \* table embeddings (the doc_ids of its rows)
  domain_stats,         \* table domain_stats: pages_count of each domain
  domain_importance,    \* table domain_stats: importance of each domain, in tenths
  last_priority,        \* each worker's priority of its latest pop, 0 before (history)
  snippet_call,         \* the arguments of the latest _generate_snippet call
  snippet_result,       \* <<its return value>>, <<>> before any call
  now,                  \* the clock the cache reads, in ticks
  cache_call,           \* the latest call on the page cache and what it returned
  hybrid_call,          \* the arguments of the latest hybrid_search call
  hybrid_result,        \* <<its return value>>, <<>> before any call
  query_cache,          \* EnhancedSearchEngine.query_cache: key -> (time, results, total)
  search_call,          \* the latest EnhancedSearchEngine.search call: its arguments,
                        \* and whether it logged "Using cached results"
  search_result,        \* <<its return value>>, <<>> before any call
  last_answer,          \* key -> the latest evaluation of the query (history)
  monitor,              \* IOLoop.call_later(delay, check_thread_health): <<delay>> of
                        \* the pending call, <<>> when none is pending
  lock,                 \* self.lock: "free", or "io" while a method called on the
                        \* I/O loop is inside "with self.lock"
  frames,               \* the I/O loop's stack of calls: of each call, the steps
                        \* it has still to take
  callbacks,            \* the callbacks add_callback and call_later have pending
  link_call             \* the arguments of the latest _add_links_to_queue call and
                        \* <<its return value>>

vars ==
  <<is_crawling, crawler_thread, crawl_stats, visited_urls, queue, unfinished,
    force_recrawl, domain_access_times, robots_cache, content_fingerprints,
    state_file, timers, io_pc, last_event, last_stats, pc, cur, urls_processed, documents,
    index_entries, metadata, crawler_visits, fetches, stop_requested, cache,
    compressed_content, fts_index, embeddings, domain_stats, domain_importance, last_priority,
    snippet_call, snippet_result, now, cache_call, hybrid_call, hybrid_result,
    query_cache, search_call, search_result, last_answer, monitor, lock,
    link_call, frames, callbacks>>

crawlerVars ==
  <<is_crawling, crawler_thread, crawl_stats, visited_urls, queue, unfinished,
    force_recrawl, domain_access_times, robots_cache, content_fingerprints,
    state_file, timers, io_pc, last_event, last_stats, fetches, stop_requested>>
workerVars == <<pc, cur, urls_processed>>
storeVars == <<documents, index_entries, metadata, crawler_visits>>
optimizedVars ==
  <<cache, compressed_content, fts_index, embeddings, domain_stats, domain_importance>>
snippetVars == <<snippet_call, snippet_result>>
pageCacheVars == <<now, cache_call>>
hybridVars == <<hybrid_call, hybrid_result>>
searchVars == <<query_cache, search_call, search_result, last_answer>>
linkVars == <<link_call>>
ioVars == <<frames, callbacks>>
queryVars == <<snippetVars, pageCacheVars, hybridVars, searchVars, linkVars, ioVars>>

Workers == 1..MaxWorkers
NoThread == 0
Alive(w) == pc[w] \notin {"unborn", "done"}
Started == {w \in Workers : pc[w] # "unborn"}

\* crawl_stats as __init__ builds it ("max_depth" is absent there and read
\* with .get("max_depth", 2)).
InitialStats ==
  [status |-> "idle", crawled |-> 0, queued |-> 0, indexed |-> 0, errors |-> 0,
   skipped_duplicates |-> 0, robots_blocked |-> 0, max_depth |-> DefaultMaxDepth,
   current_url |-> NoUrl, force_recrawl |-> FALSE]

\* crawl_stats as crawl() resets it for a new job.
FreshStats(start_url, depth, force) ==
  [status |-> "running", crawled |-> 0, queued |-> 1, indexed |-> 0, errors |-> 0,
   skipped_duplicates |-> 0, robots_blocked |-> 0, max_depth |-> depth,
   current_url |-> start_url, force_recrawl |-> force]

\* A crawler_visits row.
VisitRow(u, d, s) == [url |-> u, depth |-> d, success |-> s]

\* The visit log a database file may hold when the process starts (rows
\* written by earlier runs, e.g. of engine/crawler.py).
InitialVisitLogs ==
  { {VisitRow(u, 0, TRUE) : u \in S} : S \in {{}, {2}, {3}} }

\* No query has been served yet.
NoSnippetCall == [use_db |-> TRUE, content |-> <<>>, query_tokens |-> <<>>]
NoCacheCall == [op |-> "none", url |-> NoUrl, result |-> <<>>]
NoHybridCall ==
  [query_tokens |-> <<>>, query_string |-> <<>>, page |-> 1, results_per_page |-> 10]
NoLinkCall == [links |-> <<>>, current_depth |-> 0, returned |-> <<>>]
LinkIdle == link_call = NoLinkCall
SnippetIdle ==
  /\ snippet_call = NoSnippetCall
  /\ snippet_result = <<>>
PageCacheIdle ==
  /\ now = 0
  /\ cache_call = NoCacheCall
HybridIdle ==
  /\ hybrid_call = NoHybridCall
  /\ hybrid_result = <<>>
NoSearchCall == [query |-> <<>>, content_type |-> "None", page |-> 1, cached |-> FALSE]
SearchIdle ==
  /\ query_cache = EmptyMap
  /\ search_call = NoSearchCall
  /\ search_result = <<>>
  /\ last_answer = EmptyMap
QueryIdle ==
  /\ SnippetIdle
  /\ PageCacheIdle
  /\ HybridIdle
  /\ SearchIdle
  /\ LinkIdle

\* The crawler and the worker slots after construction.
CrawlerIdle ==
  /\ is_crawling = FALSE
  /\ crawler_thread = NoThread
  /\ crawl_stats = InitialStats
  /\ visited_urls = {}
  /\ queue = <<>>
  /\ unfinished = 0
  /\ force_recrawl = FALSE
  /\ domain_access_times = EmptyMap
  /\ robots_cache = EmptyMap
  /\ content_fingerprints = EmptyMap
  /\ state_file = <<>>
  /\ timers = 0
  /\ io_pc = "idle"
  /\ last_event = "none"
  /\ last_stats = <<>>
  /\ pc = [w \in Workers |-> "unborn"]
  /\ cur = [w \in Workers |-> [url |-> NoUrl, depth |-> 0]]
  /\ urls_processed = [w \in Workers |-> 0]
  /\ crawler_visits \in InitialVisitLogs
  /\ fetches = EmptyMap
  /\ stop_requested = FALSE
  /\ last_priority = [w \in Workers |-> 0]
  /\ monitor = SetupThreadMonitor
  /\ lock = "free"
  /\ frames = <<>>
  /\ callbacks = <<>>

\* The tables as init_db and init_optimized_db create them.
InitialMetadata == [doc_count |-> 0, last_crawl_url |-> NoUrl, last_crawl_pages |-> 0]
EmptyDb ==
  /\ documents = {}
  /\ index_entries = {}
  /\ metadata = InitialMetadata
  /\ cache = EmptyMap
  /\ compressed_content = {}
  /\ fts_index = {}
  /\ embeddings = {}
  /\ domain_stats = EmptyMap
  /\ domain_importance = EmptyMap

\* The crawler, the worker slots and the database file after construction.
BaseInit ==
  /\ CrawlerIdle
  /\ EmptyDb

Init ==
  /\ BaseInit
  /\ QueryIdle

\* ---------------------------------------------------------------------- time
\* n seconds pass: every recorded timestamp grows n seconds older.
Older(f, n) == [k \in DOMAIN f |-> Min(f[k] + n, AgeCap)]
OlderFile(file, n) ==
  IF file = <<>> THEN file
  ELSE <<[file[1] EXCEPT !.domain_access_times = Older(@, n)]>>
OlderFetches(f, n) == [k \in DOMAIN f |-> [f[k] EXCEPT !.age = Min(@ + n, AgeCap)]]
\* The record of a fetch of host h, n seconds after the record f was last aged.
Fetched(f, h, n) ==
  MapPut(OlderFetches(f, n), h,
         [age |-> 0,
          gap |-> IF h \in DOMAIN f THEN Min(f[h].age + n, AgeCap) ELSE AgeCap])

\* ------------------------------------------------------ store (SearchDatabase)
Range(s) == {s[i] : i \in DOMAIN s}
Count(w, words) == Cardinality({i \in DOMAIN words : words[i] = w})
MaxId(docs) ==
  IF docs = {} THEN 0 ELSE CHOOSE m \in {d.id : d \in docs} : \A d \in docs : d.id <= m

\* INSERT OR REPLACE INTO documents (url, ...): the row holding the url is
\* deleted and a new row is inserted under the next rowid (the largest id of
\* the table, the replaced row's included, plus one); cursor.lastrowid.
NewDocId(docs, url) == MaxId(docs) + 1

DbInsertDocument(docs, url, title, content, domain) ==
  {d \in docs : d.url # url}
    \cup {[id |-> NewDocId(docs, url), url |-> url, title |-> title,
           content |-> content, domain |-> domain]}

\* UPDATE metadata SET value = value + 1 WHERE key = 'doc_count' AND NOT EXISTS
\* (SELECT 1 FROM documents WHERE url = ? AND id != ?), after the insert.
DbDocCount(count, docs, url, doc_id) ==
  IF ~(\E d \in docs : d.url = url /\ d.id # doc_id) THEN count + 1 ELSE count

\* SearchDatabase.add_document on the store st; the returned id is
\* NewDocId(st.documents, url).
DbAddDocument(st, url, title, content, domain) ==
  LET id == NewDocId(st.documents, url)
      docs == DbInsertDocument(st.documents, url, title, content, domain)
  IN [st EXCEPT !.documents = docs,
                !.metadata.doc_count = DbDocCount(@, docs, url, id)]

\* word_frequencies of SearchEngine.add_document: count / total_words, kept
\* as the fraction num / den.
WordFrequencies(words) ==
  {[word |-> w, num |-> Count(w, words), den |-> Len(words)] : w \in Range(words)}

\* The importance column's DEFAULT 1.0, in tenths.
DefaultImportance == 10

\* SearchDatabase.update_index.
DbUpdateIndex(st, doc_id, freqs) ==
  [st EXCEPT !.index_entries =
     {e \in @ : e.doc_id # doc_id}
       \cup {[word |-> f.word, doc_id |-> doc_id, num |-> f.num, den |-> f.den,
              importance |-> DefaultImportance] : f \in freqs}]

\* SearchEngine.add_document (use_db): the store afterwards.
AddDocument(st, url, title, content, domain) ==
  IF url = NoUrl \/ content = <<>> THEN st
  ELSE LET id == NewDocId(st.documents, url)
           st1 == DbAddDocument(st, url, title, content, domain)
           words == Tokenize(title \o content)
       IN IF words # <<>> THEN DbUpdateIndex(st1, id, WordFrequencies(words)) ELSE st1

Store == [documents |-> documents, index_entries |-> index_entries, metadata |-> metadata]

\* SearchEngine.clear_index (use_db).
ClearIndex(st) ==
  [st EXCEPT !.index_entries = {}, !.documents = {}, !.metadata.doc_count = 0]

\* SearchDatabase.cache_page: INSERT OR REPLACE INTO cache, keyed by url; the
\* row expires expiry_seconds after the clock's instant t.
CachePage(st, url, t, expiry_seconds) ==
  [st EXCEPT !.cache = MapPut(@, url, t + expiry_seconds)]

\* A lookup that takes any cached row.
GetCachedPageIgnoringExpiry(c, url, t) ==
  IF url \in DOMAIN c THEN <<c[url]>> ELSE <<>>

\* SearchDatabase.get_cached_page: SELECT ... WHERE url = ? AND expiry > now;
\* <<the row>> or <<>> for None.
GetCachedPage(c, url, t) ==
  IF url \in DOMAIN c /\ c[url] > t THEN <<c[url]>> ELSE <<>>

\* SearchDatabase.clear_cache: DELETE FROM cache.
ClearCache(c) == EmptyMap

\* SearchDatabase.clear_expired_cache: DELETE FROM cache WHERE expiry < now,
\* returning cursor.rowcount.
ClearExpiredCache(c, t) ==
  LET deleted == {u \in DOMAIN c : c[u] < t}
  IN  [cache |-> [u \in DOMAIN c \ deleted |-> c[u]], rowcount |-> Cardinality(deleted)]

\* SUM(i.frequency * i.importance) of SearchDatabase.search for the document
\* doc_id and the query tokens, in units of 1 / (10 * scale); scale is a
\* common multiple of the denominators of the frequencies.
RECURSIVE DenProduct(_)
DenProduct(dens) ==
  IF dens = {} THEN 1
  ELSE LET d == CHOOSE x \in dens : TRUE IN d * DenProduct(dens \ {d})
ScoreScale(st) == DenProduct({e.den : e \in st.index_entries})
RECURSIVE SumScores(_, _)
SumScores(entries, scale) ==
  IF entries = {} THEN 0
  ELSE LET e == CHOOSE x \in entries : TRUE
       IN e.num * e.importance * (scale \div e.den) + SumScores(entries \ {e}, scale)
DbSearchScore(st, doc_id, query_tokens) ==
  SumScores({e \in st.index_entries : e.doc_id = doc_id /\ e.word \in Range(query_tokens)},
            ScoreScale(st))
\* The rows SearchDatabase.search joins: documents holding a posting of a
\* query token.
DbSearchMatches(st, query_tokens) ==
  {d \in st.documents :
     \E e \in st.index_entries : e.doc_id = d.id /\ e.word \in Range(query_tokens)}

\* ------------------------------------------- store (OptimizedSearchDatabase)
\* The tables of the database file an engine works on.
OptimizedStore ==
  [documents |-> documents, index_entries |-> index_entries, metadata |-> metadata,
   cache |-> cache, compressed_content |-> compressed_content,
   fts_index |-> fts_index, embeddings |-> embeddings, domain_stats |-> domain_stats,
   domain_importance |-> domain_importance]

\* "importance REAL DEFAULT 1.0" of the table domain_stats, in tenths.
DefaultDomainImportance == 10

\* OptimizedSearchDatabase.add_document: the base insert, then INSERT OR
\* REPLACE of the compressed_content row and of the fts_index row of the new
\* doc_id, then INSERT OR REPLACE of the domain's row of domain_stats with
\* pages_count + 1 (1 for a domain not yet there); the new row takes the
\* DEFAULT of the importance column, which the statement does not list.
OptimizedAddDocument(st, url, title, content, domain) ==
  LET id == NewDocId(st.documents, url)
      st1 == DbAddDocument(st, url, title, content, domain)
      pages == IF domain \in DOMAIN st.domain_stats THEN st.domain_stats[domain] + 1 ELSE 1
  IN [st1 EXCEPT !.compressed_content = @ \cup {id},
                 !.fts_index = {r \in @ : r.rowid # id}
                                 \cup {[rowid |-> id, url |-> url, title |-> title,
                                         content |-> content]},
                 !.domain_stats = MapPut(@, domain, pages),
                 !.domain_importance = MapPut(@, domain, DefaultDomainImportance)]

\* EnhancedSearchEngine._index_webpage (content without markup; the
\* document_metadata rows and the feature vector are left out).
IndexWebpage(st, url, title, content) ==
  OptimizedAddDocument(st, url, title, content, Netloc(url))

\* EnhancedSearchEngine.add_document with the default content type.
EnhancedAddDocument(st, url, title, content) ==
  IF url = NoUrl THEN st ELSE IndexWebpage(st, url, title, content)

\* OptimizedSearchDatabase.clear_index, which EnhancedSearchEngine.clear_index
\* returns: the deletes and updates it commits.
OptimizedClearIndex(st) ==
  [st EXCEPT !.index_entries = {},
             !.documents = {},
             !.compressed_content = {},
             !.fts_index = {},
             !.embeddings = {},
             !.domain_stats = [d \in DOMAIN @ |-> 0],
             !.metadata.doc_count = 0]

\* --------------------------------------------------------------------- search
\* Result rows are [id, url, score]; a result is [results, total].
OrderByScore(rows, descending) ==
  LET Before(q, r) ==
        \/ IF descending THEN q.score > r.score ELSE q.score < r.score
        \/ q.score = r.score /\ q.id < r.id
      position == [r \in rows |-> 1 + Cardinality({q \in rows : Before(q, r)})]
  IN  [i \in 1..Cardinality(rows) |-> CHOOSE r \in rows : position[r] = i]

\* LIMIT results_per_page OFFSET (page - 1) * results_per_page.
LimitOffset(rows, page, results_per_page) ==
  SubSeq(rows, (page - 1) * results_per_page + 1, Min(Len(rows), page * results_per_page))

\* SearchDatabase.search(query_tokens, page, results_per_page): the matching
\* documents by SUM(frequency * importance) descending (rows of equal score
\* in id order), and their number.
DbSearch(st, query_tokens, page, results_per_page) ==
  IF query_tokens = <<>> THEN [results |-> <<>>, total |-> 0]
  ELSE LET rows == {[id |-> d.id, url |-> d.url,
                     score |-> DbSearchScore(st, d.id, query_tokens)] :
                      d \in DbSearchMatches(st, query_tokens)}
       IN [results |-> LimitOffset(OrderByScore(rows, TRUE), page, results_per_page),
           total |-> Cardinality(rows)]

\* The words FTS5 indexes for a row: its tokenizer lowercases and keeps
\* short words and stopwords; the url and domain columns are indexed too.
UrlWords(u) ==
  {"http", "h1"} \cup (IF u = 2 THEN {"a"}
                       ELSE IF u = 3 THEN {"b", "x", "1", "y", "2"} ELSE {})
LowerAll(text) == [i \in DOMAIN text |-> Lower(text[i])]
FtsOccurrences(row, word) ==
  Count(Lower(word), LowerAll(row.title)) + Count(Lower(word), LowerAll(row.content))
    + (IF Lower(word) \in UrlWords(row.url) THEN 1 ELSE 0)
\* fts_index MATCH query_string: every word of the query occurs in the row.
FtsMatch(row, query_string) ==
  \A i \in DOMAIN query_string : FtsOccurrences(row, query_string[i]) > 0
\* rank: bm25, smaller for a better match; here the negated number of
\* occurrences of the query's words.
RECURSIVE FtsHits(_, _)
FtsHits(row, query_string) ==
  IF query_string = <<>> THEN 0
  ELSE FtsOccurrences(row, Head(query_string)) + FtsHits(row, Tail(query_string))
FtsRank(row, query_string) == 0 - FtsHits(row, query_string)

\* FROM fts_index JOIN documents d ON fts_index.rowid = d.id WHERE fts_index
\* MATCH query_string.
FtsRows(st, query_string) ==
  {[id |-> r.rowid, url |-> (CHOOSE d \in st.documents : d.id = r.rowid).url,
    score |-> FtsRank(r, query_string)] :
     r \in {x \in st.fts_index :
              FtsMatch(x, query_string) /\ \E d \in st.documents : d.id = x.rowid}}

\* OptimizedSearchDatabase.fts_search(query_string, page, results_per_page).
FtsSearch(st, query_string, page, results_per_page) ==
  [results |-> LimitOffset(OrderByScore(FtsRows(st, query_string), FALSE),
                           page, results_per_page),
   total |-> Cardinality({r \in st.fts_index : FtsMatch(r, query_string)})]

\* super().search(query_tokens, page=1, results_per_page=100)
CandidateLimit == 100

\* A hybrid search that forgets the candidates.
HybridSearchUnfiltered(st, query_tokens, query_string, page, results_per_page) ==
  FtsSearch(st, query_string, page, results_per_page)

\* OptimizedSearchDatabase.hybrid_search(query_tokens, query_string, page,
\* results_per_page).
HybridSearch(st, query_tokens, query_string, page, results_per_page) ==
  LET inverted == DbSearch(st, query_tokens, 1, CandidateLimit)
      inverted_ids == {inverted.results[i].id : i \in DOMAIN inverted.results}
  IN  IF inverted_ids = {} THEN FtsSearch(st, query_string, page, results_per_page)
      ELSE [results |->
              LimitOffset(OrderByScore({r \in FtsRows(st, query_string) :
                                          r.id \in inverted_ids}, FALSE),
                          page, results_per_page),
            total |-> inverted.total]

\* ------------------------------------------- EnhancedSearchEngine.search
\* self.cache_ttl, an hour, in ticks of the clock.
cache_ttl == 2
DefaultResultsPerPage == 10
DemoLimit == 5

\* cache_key: the query, the content type and the page (results_per_page,
\* time_period and sort_by are left at their defaults).
CacheKey(query, content_type, page) == <<query, content_type, page>>

\* _generate_demo_results: ids 1000 + n, score 0.5 (in tenths).
GenerateDemoResults(query, page, results_per_page) ==
  [i \in 1..Min(DemoLimit, results_per_page) |->
     [id |-> 1000 + (page - 1) * results_per_page + i,
      url |-> 1000 + (page - 1) * results_per_page + i, score |-> 5]]

\* The evaluation of a query with tokens against the store: hybrid_search,
\* demo results when it finds nothing.
EvaluateQuery(st, query, page, results_per_page) ==
  LET found == HybridSearch(st, Tokenize(query), query, page, results_per_page)
  IN  IF found.results = <<>> /\ found.total = 0
      THEN LET demo == GenerateDemoResults(query, page, results_per_page)
           IN [results |-> demo, total |-> Len(demo)]
      ELSE found

\* A search that never lets a cached entry expire.
EnhancedSearchWithoutTtl(st, qc, t, query, content_type, page, results_per_page) ==
  LET key == CacheKey(query, content_type, page) IN
  IF query = <<>> \/ (key \notin DOMAIN qc /\ Tokenize(query) = <<>>)
  THEN [results |-> <<>>, total |-> 0, query_cache |-> qc, cached |-> FALSE]
  ELSE IF key \in DOMAIN qc
  THEN [results |-> qc[key].results, total |-> qc[key].total, query_cache |-> qc,
        cached |-> TRUE]
  ELSE LET answer == EvaluateQuery(st, query, page, results_per_page)
       IN [results |-> answer.results, total |-> answer.total,
           query_cache |-> MapPut(qc, key, [time |-> t, results |-> answer.results,
                                            total |-> answer.total]),
           cached |-> FALSE]

\* EnhancedSearchEngine.search(query, content_type, page, results_per_page)
\* at the instant t with the query cache qc: the returned results and total,
\* the query cache afterwards, and whether "Using cached results" was logged.
EnhancedSearch(st, qc, t, query, content_type, page, results_per_page) ==
  LET key == CacheKey(query, content_type, page) IN
  IF query = <<>> THEN [results |-> <<>>, total |-> 0, query_cache |-> qc, cached |-> FALSE]
  ELSE IF key \in DOMAIN qc /\ t - qc[key].time < cache_ttl
  THEN [results |-> qc[key].results, total |-> qc[key].total, query_cache |-> qc,
        cached |-> TRUE]
  ELSE IF Tokenize(query) = <<>>
  THEN [results |-> <<>>, total |-> 0, query_cache |-> qc, cached |-> FALSE]
  ELSE LET answer == EvaluateQuery(st, query, page, results_per_page)
       IN [results |-> answer.results, total |-> answer.total,
           query_cache |-> MapPut(qc, key, [time |-> t, results |-> answer.results,
                                            total |-> answer.total]),
           cached |-> FALSE]

\* SearchDatabase.is_url_visited.
IsUrlVisited(u) == \E r \in crawler_visits : r.url = u

\* ------------------------------------------------------------- state snapshot
\* The five fields of the crawler that save_state reads and load_state sets.
Snapshot ==
  [visited_urls |-> visited_urls, queue |-> queue, crawl_stats |-> crawl_stats,
   domain_access_times |-> domain_access_times,
   content_fingerprints |-> content_fingerprints]

\* list(a set): its elements in one order; load_state reads the list back
\* with set(), which forgets the order.
RECURSIVE SetToList(_)
SetToList(S) ==
  IF S = {} THEN <<>>
  ELSE LET x == CHOOSE y \in S : \A z \in S : y <= z IN <<x>> \o SetToList(S \ {x})

\* A save that leaves the frontier out.
SaveStateWithoutQueue(snap) ==
  [snap EXCEPT !.visited_urls = SetToList(@), !.queue = <<>>]

\* The dict save_state pickles for the fields snap: the visited set as a
\* list, the heap's list of entries, the three dicts as they are.
SaveState(snap) == [snap EXCEPT !.visited_urls = SetToList(@)]

\* load_state on the unpickled dict: set() of the list, a new PriorityQueue
\* with every entry put into it, the three dicts as they are.
LoadState(file) ==
  [file EXCEPT !.visited_urls = Range(@), !.queue = PutAll(<<>>, @)]

\* ---------------------------------------------------------- I/O loop: crawl()
\* crawl() up to and including crawler_thread.start().
CrawlBegin(start_url, depth, resume, force) ==
  /\ UNCHANGED <<optimizedVars, last_priority, queryVars, monitor, lock>>
  /\ io_pc = "idle"
  /\ IF is_crawling
     THEN \* "Crawler is already running": return False
          /\ last_event' = "error"
          /\ last_stats' = <<>>
          /\ UNCHANGED <<is_crawling, crawler_thread, crawl_stats, visited_urls, queue,
                         unfinished, force_recrawl, domain_access_times, robots_cache,
                         content_fingerprints, state_file, timers, io_pc, fetches,
                         stop_requested, workerVars, storeVars>>
     ELSE IF ~(resume /\ state_file # <<>>) /\ start_url = NoUrl
     THEN \* "No URL provided": return False
          /\ force_recrawl' = force
          /\ last_event' = "error"
          /\ last_stats' = <<>>
          /\ UNCHANGED <<is_crawling, crawler_thread, crawl_stats, visited_urls, queue,
                         unfinished, domain_access_times, robots_cache,
                         content_fingerprints, state_file, timers, io_pc, fetches,
                         stop_requested, workerVars, storeVars>>
     ELSE /\ Cardinality(Started) < MaxWorkers
          /\ force_recrawl' = force
          /\ IF resume /\ state_file # <<>>
             THEN \* load_state()
                  /\ visited_urls' = LoadState(state_file[1]).visited_urls
                  /\ queue' = LoadState(state_file[1]).queue
                  /\ unfinished' = Len(state_file[1].queue)
                  /\ crawl_stats' = LoadState(state_file[1]).crawl_stats
                  /\ domain_access_times' = LoadState(state_file[1]).domain_access_times
                  /\ content_fingerprints' = LoadState(state_file[1]).content_fingerprints
                  /\ UNCHANGED <<crawler_visits, metadata>>
             ELSE /\ crawl_stats' = FreshStats(start_url, depth, force)
                  /\ visited_urls' = {}
                  /\ crawler_visits' = IF force THEN {} ELSE crawler_visits
                  /\ queue' = <<<<MinPriority, start_url, 0>>>>
                  /\ unfinished' = 1
                  /\ metadata' = [metadata EXCEPT !.last_crawl_url = start_url]
                  /\ UNCHANGED <<domain_access_times, content_fingerprints>>
          /\ LET w == Cardinality(Started) + 1 IN
               /\ pc' = [pc EXCEPT ![w] = "start"]
               /\ crawler_thread' = w
          /\ io_pc' = "crawl_started"
          /\ stop_requested' = FALSE
          /\ UNCHANGED <<is_crawling, robots_cache, state_file, timers, last_event, last_stats,
                         fetches, cur, urls_processed, documents, index_entries>>

\* crawl() after the thread start: "Set state flag after thread started".
CrawlFlag ==
  /\ UNCHANGED <<optimizedVars, last_priority, queryVars, monitor, lock>>
  /\ io_pc = "crawl_started"
  /\ is_crawling' = TRUE
  /\ last_event' = "started"
  /\ last_stats' = <<>>
  /\ io_pc' = "idle"
  /\ UNCHANGED <<crawler_thread, crawl_stats, visited_urls, queue, unfinished,
                 force_recrawl, domain_access_times, robots_cache, content_fingerprints,
                 state_file, timers, fetches, stop_requested, workerVars, storeVars>>

\* ------------------------------------------------- I/O loop: stopping the job
\* stop_crawl, from "Set a flag to request stopping" to the arming of the
\* force-stop timer.
RequestStop ==
  /\ crawl_stats' = [crawl_stats EXCEPT !.status = "stopping"]
  /\ last_event' = "stopping"
  /\ last_stats' = <<>>
  /\ state_file' = <<SaveState([Snapshot EXCEPT !.crawl_stats.status = "stopping"])>>
  /\ timers' = timers + 1
  /\ stop_requested' = TRUE

\* The body of stop_crawl inside "with self.lock".
StopCrawlBody ==
  IF ~is_crawling /\ crawler_thread = NoThread
  THEN UNCHANGED <<is_crawling, crawl_stats, last_event, last_stats, state_file,
                   timers, stop_requested>>
  ELSE IF crawler_thread # NoThread /\ ~Alive(crawler_thread)
  THEN /\ is_crawling' = FALSE
       /\ last_event' = "reset"
       /\ last_stats' = <<>>
       /\ UNCHANGED <<crawl_stats, state_file, timers, stop_requested>>
  ELSE /\ timers < MaxTimers
       /\ RequestStop
       /\ UNCHANGED is_crawling

\* What stop_crawl never touches.
StopCrawlFrame ==
  UNCHANGED <<crawler_thread, visited_urls, queue, unfinished, force_recrawl,
              domain_access_times, robots_cache, content_fingerprints, fetches,
              workerVars, storeVars, optimizedVars, last_priority, queryVars, monitor>>

\* stop_crawl as one step of the I/O loop: the lock is taken and released
\* inside it.
StopCrawl ==
  /\ io_pc = "idle"
  /\ lock = "free"
  /\ StopCrawlBody
  /\ StopCrawlFrame
  /\ UNCHANGED <<io_pc, lock>>

\* The callback stop_crawl arms with call_later(30, force_stop).
TimerForceStop ==
  /\ UNCHANGED <<optimizedVars, last_priority, queryVars, monitor, lock>>
  /\ io_pc = "idle"
  /\ timers > 0
  /\ timers' = timers - 1
  /\ IF is_crawling
     THEN /\ is_crawling' = FALSE
          /\ last_event' = "force_stopped"
          /\ last_stats' = <<>>
     ELSE UNCHANGED <<is_crawling, last_event, last_stats>>
  /\ UNCHANGED <<crawler_thread, crawl_stats, visited_urls, queue, unfinished,
                 force_recrawl, domain_access_times, robots_cache, content_fingerprints,
                 state_file, io_pc, fetches, stop_requested, workerVars, storeVars>>

ForceStop ==
  /\ UNCHANGED <<optimizedVars, last_priority, queryVars, monitor, lock>>
  /\ io_pc = "idle"
  /\ is_crawling' = FALSE
  /\ crawl_stats' = [crawl_stats EXCEPT !.status = "force_stopped"]
  /\ last_event' = "force_stopped"
  /\ last_stats' = <<>>
  /\ UNCHANGED <<crawler_thread, visited_urls, queue, unfinished, force_recrawl,
                 domain_access_times, robots_cache, content_fingerprints, state_file,
                 timers, io_pc, fetches, stop_requested, workerVars, storeVars>>

\* _reset_crawler_state (the emergency snapshot it saves is a file of its own,
\* which nothing loads).
ResetCrawlerState ==
  /\ is_crawling' = FALSE
  /\ crawl_stats' = [crawl_stats EXCEPT !.status = "reset"]
  /\ last_event' = "reset"
  /\ last_stats' = <<>>

\* A health check that resets only when no thread was ever started.
HealthCheckWithoutIsAlive(stale) ==
  /\ UNCHANGED <<optimizedVars, last_priority, queryVars>>
  /\ io_pc = "idle"
  /\ monitor # <<>>
  /\ IF is_crawling /\ crawler_thread = NoThread
     THEN ResetCrawlerState
     ELSE IF is_crawling /\ stale
     THEN /\ last_event' = "warning"
          /\ last_stats' = <<>>
          /\ UNCHANGED <<is_crawling, crawl_stats>>
     ELSE UNCHANGED <<is_crawling, crawl_stats, last_event, last_stats>>
  /\ monitor' = <<interval_ms \div 1000>>
  /\ UNCHANGED <<lock, crawler_thread, visited_urls, queue, unfinished, force_recrawl,
                 domain_access_times, robots_cache, content_fingerprints, state_file,
                 timers, io_pc, fetches, stop_requested, workerVars, storeVars>>

\* check_thread_health, run by the I/O loop when its delayed call is due.
\* stale: "time.time() - self.thread_heartbeat > 60" at that moment.
HealthCheck(stale) ==
  /\ UNCHANGED <<optimizedVars, last_priority, queryVars>>
  /\ io_pc = "idle"
  /\ monitor # <<>>
  /\ IF is_crawling /\ (crawler_thread = NoThread \/ ~Alive(crawler_thread))
     THEN ResetCrawlerState
     ELSE IF is_crawling /\ stale
     THEN /\ last_event' = "warning"
          /\ last_stats' = <<>>
          /\ UNCHANGED <<is_crawling, crawl_stats>>
     ELSE UNCHANGED <<is_crawling, crawl_stats, last_event, last_stats>>
  /\ monitor' = <<interval_ms \div 1000>>
  /\ UNCHANGED <<lock, crawler_thread, visited_urls, queue, unfinished, force_recrawl,
                 domain_access_times, robots_cache, content_fingerprints, state_file,
                 timers, io_pc, fetches, stop_requested, workerVars, storeVars>>

\* ------------------------------------------------------ worker: _crawl_thread
\* queue.task_done(): raises ValueError when unfinished_tasks is already 0.
TaskDoneOk(n) == n > 0
AfterTaskDone(n) == IF TaskDoneOk(n) THEN n - 1 ELSE n

\* A loop without the persistent-log gate.
NeverSkip(u) == FALSE

\* The persistent-log gate of the loop: "not force_recrawl and self.use_db and
\* self.db and self.db.is_url_visited(url)".
SkipAsVisitedInDb(u) == ~force_recrawl /\ IsUrlVisited(u)

\* rp.can_fetch("*", url)
RobotsAllows(rp, u) == u \notin rp.disallow

\* time.sleep(delay) of _apply_rate_limiting for host h, given the ages of
\* the access times at the reading of the clock.
RateLimitSleep(times, h) ==
  IF h \in DOMAIN times /\ times[h] < min_crawl_delay
  THEN min_crawl_delay - times[h]
  ELSE 0

\* "Record completion".
FinalStatus(status, n) ==
  IF status # "stopping"
  THEN IF n >= max_urls THEN "terminated" ELSE "completed"
  ELSE status

\* The entry of _crawl_thread: "if self.queue.qsize() == 0".
WorkerBegin(w) ==
  /\ UNCHANGED <<optimizedVars, last_priority, queryVars, monitor, lock>>
  /\ pc[w] = "start"
  /\ IF queue = <<>>
     THEN /\ last_event' = "error"
          /\ last_stats' = <<>>
          /\ is_crawling' = FALSE
          /\ pc' = [pc EXCEPT ![w] = "done"]
     ELSE /\ pc' = [pc EXCEPT ![w] = "loop"]
          /\ UNCHANGED <<last_event, last_stats, is_crawling>>
  /\ UNCHANGED <<crawler_thread, crawl_stats, visited_urls, queue, unfinished,
                 force_recrawl, domain_access_times, robots_cache, content_fingerprints,
                 state_file, timers, io_pc, fetches, stop_requested, cur,
                 urls_processed, storeVars>>

\* The loop is left: "Record completion" to the finally clause.
WorkerFinish(w) ==
  /\ UNCHANGED <<optimizedVars, last_priority, queryVars, monitor, lock>>
  /\ pc[w] = "loop"
  /\ queue = <<>> \/ urls_processed[w] >= max_urls \/ crawl_stats.status = "stopping"
  /\ crawl_stats' =
       [crawl_stats EXCEPT !.status = FinalStatus(@, urls_processed[w])]
  /\ metadata' = [metadata EXCEPT !.last_crawl_pages = crawl_stats.crawled]
  /\ last_event' = crawl_stats'.status
  /\ last_stats' = <<crawl_stats'>>
  /\ is_crawling' = FALSE
  /\ pc' = [pc EXCEPT ![w] = "done"]
  /\ UNCHANGED <<crawler_thread, visited_urls, queue, unfinished, force_recrawl,
                 domain_access_times, robots_cache, content_fingerprints, state_file,
                 timers, io_pc, fetches, stop_requested, cur, urls_processed,
                 documents, index_entries, crawler_visits>>

\* One iteration from the pop to the sending of the request: the two visited
\* gates, is_allowed_by_robots and _apply_rate_limiting.
\*  - A cache miss reads robots.txt; a declared Crawl-delay d makes the code
\*    assign max(min_crawl_delay, d) to domain_access_times[domain], which the
\*    rate limiter reads as a time.time() stamp, i.e. one of the greatest age.
\*  - A ValueError of task_done in the robots branch is caught by the except
\*    around the robots check, and the iteration goes on to the request.
WorkerPop(w) ==
  /\ UNCHANGED <<optimizedVars, queryVars, monitor, lock>>
  /\ pc[w] = "loop"
  /\ ~(queue = <<>> \/ urls_processed[w] >= max_urls \/ crawl_stats.status = "stopping")
  /\ last_priority' = [last_priority EXCEPT ![w] = Head(queue)[1]]
  /\ LET u == Head(queue)[2]
         d == Head(queue)[3]
         h == Netloc(u)
         failed == [crawl_stats EXCEPT !.errors = @ + 1]
     IN /\ queue' = Tail(queue)
        /\ urls_processed' = [urls_processed EXCEPT ![w] = @ + 1]
        /\ IF u \in visited_urls \/ SkipAsVisitedInDb(u)
           THEN /\ visited_urls' = visited_urls \cup {u}
                /\ unfinished' = AfterTaskDone(unfinished)
                /\ crawl_stats' = IF TaskDoneOk(unfinished) THEN crawl_stats ELSE failed
                /\ UNCHANGED <<last_event, last_stats, cur, pc, robots_cache, domain_access_times,
                               fetches, state_file>>
           ELSE \E rp \in (IF h \in DOMAIN robots_cache THEN {robots_cache[h]}
                           ELSE RobotsVariants) :
                  LET denied == ~RobotsAllows(rp, u)
                      request == ~denied \/ ~TaskDoneOk(unfinished)
                      times == IF rp.delay > 0
                               THEN MapPut(domain_access_times, h, AgeCap)
                               ELSE domain_access_times
                  IN /\ last_event' = "crawling"
                     /\ last_stats' = <<>>
                     /\ robots_cache' = MapPut(robots_cache, h, rp)
                     /\ crawl_stats' =
                          [crawl_stats EXCEPT !.current_url = u,
                                              !.robots_blocked = @ + (IF denied THEN 1 ELSE 0)]
                     /\ visited_urls' = IF denied THEN visited_urls \cup {u} ELSE visited_urls
                     /\ unfinished' = IF denied THEN AfterTaskDone(unfinished) ELSE unfinished
                     /\ IF request
                        THEN /\ \E elapsed \in 0..AgeCap :
                                  LET sleep == RateLimitSleep(Older(times, elapsed), h)
                                      passed == elapsed + sleep
                                  IN /\ domain_access_times' = MapPut(Older(times, passed), h, 0)
                                     /\ fetches' = Fetched(fetches, h, passed)
                                     /\ state_file' = OlderFile(state_file, passed)
                             /\ cur' = [cur EXCEPT ![w] = [url |-> u, depth |-> d]]
                             /\ pc' = [pc EXCEPT ![w] = "fetch"]
                        ELSE /\ domain_access_times' = times
                             /\ UNCHANGED <<fetches, state_file, cur, pc>>
  /\ UNCHANGED <<is_crawling, crawler_thread, force_recrawl, content_fingerprints,
                 timers, io_pc, stop_requested, storeVars>>

\* The links _add_links_to_queue puts, in order, given the visited set.
AcceptedLinks(links, visited) ==
  LET Accepted(l) ==
        ~ \/ l \in visited
          \/ SkipAsVisitedInDb(l)
          \/ ~IsHttp(l)
          \/ BadExtension(l)
  IN SelectSeq(links, Accepted)

\* Link discovery without the limit on links per page.
LinkEntriesUncapped(links, visited, current_depth) ==
  LET acc == AcceptedLinks(links, visited)
  IN [i \in 1..Len(acc) |->
        <<compute_url_priority(acc[i], current_depth + 1, DefaultSourceImportance),
          acc[i], current_depth + 1>>]

LinkEntries(links, visited, current_depth) ==
  LET acc == AcceptedLinks(SubSeq(links, 1, Min(MaxLinksPerPage, Len(links))), visited)
  IN [i \in 1..Len(acc) |->
        <<compute_url_priority(acc[i], current_depth + 1, DefaultSourceImportance),
          acc[i], current_depth + 1>>]

Responses(u) ==
  {[kind |-> "html", page |-> p] : p \in Pages(u)}
    \cup {[kind |-> k, page |-> EmptyPage] : k \in FetchOutcomes(u) \ {"html"}}

\* A fetch step that leaves the visited set as it is.
MarkNothing(visited, u) == visited

\* "self.visited_urls.add(url)" of the four branches of a request: status
\* 200, another status, RequestException, any other exception.
MarkVisited(visited, u) == visited \cup {u}

\* The processing of the response r of requests.get, to the end of the
\* iteration.
WorkerFetchWith(w, r) ==
  /\ UNCHANGED <<optimizedVars, last_priority, queryVars, monitor, lock>>
  /\ LET u == cur[w].url
         d == cur[w].depth
         visited == MarkVisited(visited_urls, u)
     IN /\ visited_urls' = visited
        /\  LET indexable == r.kind = "html"
                 follow == indexable /\ d < crawl_stats.max_depth
                 entries == IF follow THEN LinkEntries(Links(u), visited, d) ELSE <<>>
                 st == IF indexable
                       THEN AddDocument(Store, u, r.page.title, r.page.body, Netloc(u))
                       ELSE Store
                 fetched == r.kind \notin {"http_error", "net_error"}
                 s1 == IF fetched
                       THEN [crawl_stats EXCEPT !.crawled = @ + 1,
                                                !.indexed = @ + (IF indexable THEN 1 ELSE 0),
                                                !.queued = @ + Len(entries)]
                       ELSE [crawl_stats EXCEPT !.errors = @ + 1]
                 n1 == unfinished + Len(entries)
             IN /\ documents' = st.documents
                /\ index_entries' = st.index_entries
                /\ metadata' = st.metadata
                /\ queue' = PutAll(queue, entries)
                /\ unfinished' = AfterTaskDone(n1)
                /\ IF r.kind = "nonhtml" /\ TaskDoneOk(n1)
                   THEN \* "Skipping non-HTML content": task_done, continue
                        /\ crawl_stats' = s1
                        /\ UNCHANGED <<last_event, last_stats>>
                   ELSE \* the progress message is sent before task_done
                        /\ last_event' = "progress"
                        /\ last_stats' = <<s1>>
                        /\ crawl_stats' =
                             IF TaskDoneOk(n1) THEN s1
                             ELSE IF r.kind = "nonhtml"
                             THEN [s1 EXCEPT !.errors = @ + 2]
                             ELSE [s1 EXCEPT !.errors = @ + 1]
        /\ pc' = [pc EXCEPT ![w] = "loop"]
  /\ UNCHANGED <<is_crawling, crawler_thread, force_recrawl, domain_access_times,
                 robots_cache, content_fingerprints, state_file, timers, io_pc,
                 fetches, stop_requested, cur, urls_processed, crawler_visits>>

\* requests.get answers with one of the responses of the url.
WorkerFetch(w) ==
  /\ pc[w] = "fetch"
  /\ \E r \in Responses(cur[w].url) : WorkerFetchWith(w, r)

Next ==
  \* CrawlerHandler.post: crawl(url, depth, force_recrawl=force), url not empty
  \/ \E start_url \in Seeds, depth \in 1..MaxDepth, force \in BOOLEAN :
       CrawlBegin(start_url, depth, FALSE, force)
  \* CrawlerResumeHandler.post: crawl(None, depth, resume=True)
  \/ \E depth \in 1..MaxDepth : CrawlBegin(NoUrl, depth, TRUE, FALSE)
  \/ CrawlFlag
  \/ StopCrawl
  \/ TimerForceStop
  \/ ForceStop
  \/ \E stale \in BOOLEAN : HealthCheck(stale)
  \/ \E w \in Workers : WorkerBegin(w)
  \/ \E w \in Workers : WorkerPop(w)
  \/ \E w \in Workers : WorkerFetch(w)
  \/ \E w \in Workers : WorkerFinish(w)

Spec == Init /\ [][Next]_vars

\* ------------------------------------------- the engines on one database file
\* SearchEngine and EnhancedSearchEngine both open search_engine.db by
\* default; the calls below are made on the file while no crawl runs.
MaxAdds == 3
\* expiry_seconds of a cache_page call that passes none (a day), in ticks.
DefaultTtl == 2
PageD1 == [title |-> <<"python">>, body |-> <<"x">>]
PageD2 == [title |-> <<"x">>, body |-> <<"python", "python">>]
StoreUrls == {NoUrl, 2, 3}
StorePages == {PageA, EmptyPage, PageD1, PageD2}
\* The pages handed to the EnhancedSearchEngine and the urls cached.
EnhancedPages == {PageA, EmptyPage}
CachedUrls == {2}

\* The tables hold the store st.
SetStoreTo(st) ==
  /\ documents = st.documents
  /\ index_entries = st.index_entries
  /\ metadata = st.metadata
  /\ cache = st.cache
  /\ compressed_content = st.compressed_content
  /\ fts_index = st.fts_index
  /\ embeddings = st.embeddings
  /\ domain_stats = st.domain_stats
  /\ domain_importance = st.domain_importance

SetStore(st) ==
  /\ documents' = st.documents
  /\ index_entries' = st.index_entries
  /\ metadata' = st.metadata
  /\ cache' = st.cache
  /\ compressed_content' = st.compressed_content
  /\ fts_index' = st.fts_index
  /\ embeddings' = st.embeddings
  /\ domain_stats' = st.domain_stats
  /\ domain_importance' = st.domain_importance

\* search_engine.add_document(url, title, content) on a SearchEngine.
IndexerAddDocument(url, page) ==
  /\ metadata.doc_count < MaxAdds
  /\ SetStore(AddDocument(OptimizedStore, url, page.title, page.body, Netloc(url)))
  /\ UNCHANGED <<crawlerVars, workerVars, crawler_visits, last_priority, queryVars, monitor, lock>>

\* search_engine.add_document(url, title, content) on an EnhancedSearchEngine.
EnhancedIndexerAddDocument(url, page) ==
  /\ metadata.doc_count < MaxAdds
  /\ \A domain \in DOMAIN domain_stats : domain_stats[domain] < MaxAdds
  /\ SetStore(EnhancedAddDocument(OptimizedStore, url, page.title, page.body))
  /\ UNCHANGED <<crawlerVars, workerVars, crawler_visits, last_priority, queryVars, monitor, lock>>

\* db.cache_page(url, ...).
CachePageCall(url) ==
  /\ SetStore(CachePage(OptimizedStore, url, now, DefaultTtl))
  /\ UNCHANGED <<crawlerVars, workerVars, crawler_visits, last_priority, queryVars, monitor, lock>>

\* SearchEngine.clear_index().
IndexerClearIndex ==
  /\ SetStore(ClearIndex(OptimizedStore))
  /\ UNCHANGED <<crawlerVars, workerVars, crawler_visits, last_priority, queryVars, monitor, lock>>

\* EnhancedSearchEngine.clear_index().
EnhancedClearIndex ==
  /\ query_cache' = EmptyMap
  /\ SetStore(OptimizedClearIndex(OptimizedStore))
  /\ last_answer' = [key \in DOMAIN last_answer |-> [last_answer[key] EXCEPT !.cleared = TRUE]]
  /\ UNCHANGED <<crawlerVars, workerVars, crawler_visits, last_priority, snippetVars,
                 pageCacheVars, hybridVars, search_call, search_result, monitor, lock, link_call, ioVars>>

StoreNext ==
  \/ \E url \in StoreUrls, page \in StorePages : IndexerAddDocument(url, page)
  \/ \E url \in StoreUrls, page \in EnhancedPages : EnhancedIndexerAddDocument(url, page)
  \/ \E url \in CachedUrls : CachePageCall(url)
  \/ IndexerClearIndex
  \/ EnhancedClearIndex

StoreSpec == Init /\ [][StoreNext]_vars

\* ------------------------------------------------------ one job after another
\* Jobs on the part of the site under /g, with depth 1 or 2 and without any
\* stop request: crawl() starts a job only after the worker of the previous
\* one has left its loop.
FrontierDepth == 2
FrontierNext ==
  \/ \E depth \in 1..FrontierDepth, force \in BOOLEAN : CrawlBegin(5, depth, FALSE, force)
  \/ CrawlFlag
  \/ \E w \in Workers : WorkerBegin(w)
  \/ \E w \in Workers : WorkerPop(w)
  \/ \E w \in Workers : WorkerFetch(w)
  \/ \E w \in Workers : WorkerFinish(w)

FrontierSpec == Init /\ [][FrontierNext]_vars

\* ------------------------------------------ a stopped crawler and its state file
\* The crawler after a job has ended, no worker thread left: the calls of
\* save_state and load_state, of is_duplicate_content, and the start of a
\* new process. No time passes here.
Fingerprints == {"md5_a", "md5_b"}
FrontierEntry(u, depth) ==
  <<compute_url_priority(u, depth, DefaultSourceImportance), u, depth>>
SnapshotFrontiers ==
  { <<>>,
    <<<<MinPriority, 2, 0>>>>,
    PutAll(<<>>, <<FrontierEntry(3, 1)>>),
    PutAll(<<>>, <<FrontierEntry(3, 1), FrontierEntry(2, 2)>>),
    PutAll(<<>>, <<FrontierEntry(2, 2), FrontierEntry(3, 1), FrontierEntry(3, 1)>>) }
SnapshotStats ==
  { [FreshStats(2, 1, force) EXCEPT !.status = status, !.crawled = crawled] :
      force \in BOOLEAN, status \in {"stopped", "completed", "force_stopped"},
      crawled \in 0..1 }
SnapshotAccessTimes ==
  {EmptyMap} \cup {[h \in Hosts |-> age] : age \in 0..AgeCap}

SnapshotInit ==
  /\ is_crawling = FALSE
  /\ crawler_thread = NoThread
  /\ crawl_stats \in SnapshotStats
  /\ visited_urls \in {{2}, {2, 3}}
  /\ queue \in SnapshotFrontiers
  /\ unfinished = Len(queue)
  /\ force_recrawl = crawl_stats.force_recrawl
  /\ domain_access_times \in SnapshotAccessTimes
  /\ robots_cache = [h \in Hosts |-> [disallow |-> {}, delay |-> 0]]
  /\ content_fingerprints = EmptyMap
  /\ state_file = <<>>
  /\ timers = 0
  /\ io_pc = "idle"
  /\ last_event = "none"
  /\ last_stats = <<>>
  /\ pc = [w \in Workers |-> "unborn"]
  /\ cur = [w \in Workers |-> [url |-> NoUrl, depth |-> 0]]
  /\ urls_processed = [w \in Workers |-> 0]
  /\ documents = {}
  /\ index_entries = {}
  /\ metadata = [doc_count |-> 0, last_crawl_url |-> NoUrl, last_crawl_pages |-> 0]
  /\ crawler_visits = {}
  /\ fetches = EmptyMap
  /\ stop_requested = FALSE
  /\ cache = EmptyMap
  /\ compressed_content = {}
  /\ fts_index = {}
  /\ embeddings = {}
  /\ domain_stats = EmptyMap
  /\ domain_importance = EmptyMap
  /\ last_priority = [w \in Workers |-> 0]
  /\ monitor = SetupThreadMonitor
  /\ lock = "free"
  /\ frames = <<>>
  /\ callbacks = <<>>
  /\ QueryIdle

\* is_duplicate_content(fingerprint, url).
IsDuplicateContent(fingerprint, url) ==
  /\ content_fingerprints' =
       IF fingerprint \in DOMAIN content_fingerprints THEN content_fingerprints
       ELSE MapPut(content_fingerprints, fingerprint, url)
  /\ UNCHANGED <<is_crawling, crawler_thread, crawl_stats, visited_urls, queue,
                 unfinished, force_recrawl, domain_access_times, robots_cache,
                 state_file, timers, io_pc, last_event, last_stats, fetches, stop_requested,
                 workerVars, storeVars, optimizedVars, last_priority,
                 queryVars, monitor, lock>>

\* save_state().
SaveStateCall ==
  /\ state_file' = <<SaveState(Snapshot)>>
  /\ UNCHANGED <<is_crawling, crawler_thread, crawl_stats, visited_urls, queue,
                 unfinished, force_recrawl, domain_access_times, robots_cache,
                 content_fingerprints, timers, io_pc, last_event, last_stats, fetches,
                 stop_requested, workerVars, storeVars, optimizedVars, last_priority,
                 queryVars, monitor, lock>>

\* load_state(): False when no file is there.
LoadStateCall ==
  /\ IF state_file = <<>>
     THEN UNCHANGED <<visited_urls, queue, unfinished, crawl_stats,
                      domain_access_times, content_fingerprints>>
     ELSE LET state == LoadState(state_file[1]) IN
            /\ visited_urls' = state.visited_urls
            /\ queue' = state.queue
            /\ unfinished' = Len(state_file[1].queue)
            /\ crawl_stats' = state.crawl_stats
            /\ domain_access_times' = state.domain_access_times
            /\ content_fingerprints' = state.content_fingerprints
  /\ UNCHANGED <<is_crawling, crawler_thread, force_recrawl, robots_cache, state_file,
                 timers, io_pc, last_event, last_stats, fetches, stop_requested, workerVars,
                 storeVars, optimizedVars, last_priority,
                 queryVars, monitor, lock>>

\* The process ends and a new one builds its SmartCrawler: __init__.
Restart ==
  /\ is_crawling' = FALSE
  /\ crawler_thread' = NoThread
  /\ crawl_stats' = InitialStats
  /\ visited_urls' = {}
  /\ queue' = <<>>
  /\ unfinished' = 0
  /\ force_recrawl' = FALSE
  /\ domain_access_times' = EmptyMap
  /\ robots_cache' = EmptyMap
  /\ content_fingerprints' = EmptyMap
  /\ UNCHANGED <<state_file, timers, io_pc, last_event, last_stats, fetches, stop_requested,
                 workerVars, storeVars, optimizedVars, last_priority,
                 queryVars, monitor, lock>>

SnapshotNext ==
  \/ \E fingerprint \in Fingerprints, url \in {2, 3} : IsDuplicateContent(fingerprint, url)
  \/ SaveStateCall
  \/ LoadStateCall
  \/ Restart

SnapshotSpec == SnapshotInit /\ [][SnapshotNext]_vars

\* ----------------------------------------------------------------- snippets
\* Texts are sequences of characters; positions count from 0 as in the code.
SnippetMaxLength == 160
SnippetWindow == 100
SnippetLead == 20
SnippetTail == 50
Ellipsis == <<".", ".", ".">>

\* str.lower() on the alphabet of the texts below.
LowerChar(c) == IF c = "P" THEN "p" ELSE IF c = "Y" THEN "y" ELSE c

\* token in content_lower[i:i+100]
TokenInWindow(content, token, i) ==
  \E p \in (i + 1)..(Min(i + SnippetWindow, Len(content)) - Len(token) + 1) :
    \A k \in 1..Len(token) : LowerChar(content[p + k - 1]) = token[k]

\* matches = sum(1 for token in query_tokens if token in window)
WindowMatches(content, query_tokens, i) ==
  Cardinality({t \in DOMAIN query_tokens : TokenInWindow(content, query_tokens[t], i)})

\* The loop over range(len(content) - 50): the first start whose window
\* holds the most tokens, 0 when no window holds any.
BestStart(content, query_tokens) ==
  LET starts == 0..(Len(content) - SnippetTail - 1)
      max_matches ==
        CHOOSE m \in 0..Len(query_tokens) :
          /\ \A i \in starts : WindowMatches(content, query_tokens, i) <= m
          /\ m > 0 => \E i \in starts : WindowMatches(content, query_tokens, i) = m
  IN  IF max_matches = 0 THEN 0
      ELSE CHOOSE i \in starts :
             /\ WindowMatches(content, query_tokens, i) = max_matches
             /\ \A j \in starts :
                  WindowMatches(content, query_tokens, j) = max_matches => i <= j

\* A cut that runs to the end of the content.
SnippetToEnd(content, best_start, max_length) ==
  SubSeq(content, Max(0, best_start - SnippetLead) + 1, Len(content))

\* The cut around best_start, with an ellipsis on each truncated side.
SnippetAround(content, best_start, max_length) ==
  LET start == Max(0, best_start - SnippetLead)
      end == Min(Len(content), best_start + max_length)
  IN  (IF start > 0 THEN Ellipsis ELSE <<>>)
        \o SubSeq(content, start + 1, end)
        \o (IF end < Len(content) THEN Ellipsis ELSE <<>>)

\* SearchDatabase._generate_snippet(content, query_tokens, max_length=160).
DbGenerateSnippet(content, query_tokens, max_length) ==
  IF content = <<>> THEN <<>>
  ELSE SnippetAround(content, BestStart(content, query_tokens), max_length)

\* SearchEngine._generate_snippet(content, query_tokens): the database's
\* method with use_db, the legacy in-memory body otherwise.
GenerateSnippet(use_db, content, query_tokens) ==
  IF use_db THEN DbGenerateSnippet(content, query_tokens, SnippetMaxLength)
  ELSE SnippetAround(content, BestStart(content, query_tokens), SnippetMaxLength)

\* Contents: a run of filler, the word "Py", a run of filler; or filler only.
SnippetLeads == {0, 19, 21, 60, 150}
SnippetTails == {0, 30, 48, 100, 200}
Text(lead, tail) ==
  [i \in 1..(lead + 2 + tail) |->
     IF i = lead + 1 THEN "P" ELSE IF i = lead + 2 THEN "y" ELSE "-"]
SnippetContents ==
  {Text(lead, tail) : lead \in SnippetLeads, tail \in SnippetTails}
    \cup {<<>>, [i \in 1..60 |-> "-"]}
SnippetQueries == {<<<<"p", "y">>>>, <<<<"z", "z">>>>, <<<<"z", "z">>, <<"p", "y">>>>}

SnippetInit ==
  /\ BaseInit
  /\ snippet_call \in [use_db : BOOLEAN, content : SnippetContents,
                       query_tokens : SnippetQueries]
  /\ snippet_result = <<>>
  /\ PageCacheIdle
  /\ HybridIdle
  /\ SearchIdle
  /\ LinkIdle

\* One _generate_snippet call on the drawn arguments.
GenerateSnippetCall ==
  /\ snippet_result = <<>>
  /\ snippet_result' = <<GenerateSnippet(snippet_call.use_db, snippet_call.content,
                                         snippet_call.query_tokens)>>
  /\ UNCHANGED <<crawlerVars, workerVars, storeVars, optimizedVars, last_priority,
                 snippet_call, pageCacheVars, hybridVars, searchVars, monitor, lock, link_call, ioVars>>

SnippetNext == GenerateSnippetCall
SnippetSpec == SnippetInit /\ [][SnippetNext]_vars

\* --------------------------------------------------------------- page cache
\* The four cache methods of one database file and the passing of time.
MaxClock == 4
CacheUrls == {2, 3}
ExpirySeconds == {1, DefaultTtl}

\* db.cache_page(url, content, headers, status_code, expiry_seconds).
CachePut(url, expiry_seconds) ==
  /\ cache' = CachePage(OptimizedStore, url, now, expiry_seconds).cache
  /\ cache_call' = [op |-> "cache_page", url |-> url, result |-> <<>>]
  /\ UNCHANGED <<crawlerVars, workerVars, storeVars, compressed_content, fts_index,
                 embeddings, domain_stats, domain_importance, last_priority, snippetVars, now,
                 hybridVars, searchVars, monitor, lock, link_call, ioVars>>

\* db.get_cached_page(url).
CacheGet(url) ==
  /\ cache_call' = [op |-> "get_cached_page", url |-> url,
                    result |-> GetCachedPage(cache, url, now)]
  /\ UNCHANGED <<crawlerVars, workerVars, storeVars, optimizedVars, last_priority,
                 snippetVars, now, hybridVars, searchVars, monitor, lock, link_call, ioVars>>

\* db.clear_cache().
CacheClear ==
  /\ cache' = ClearCache(cache)
  /\ cache_call' = [op |-> "clear_cache", url |-> NoUrl, result |-> <<>>]
  /\ UNCHANGED <<crawlerVars, workerVars, storeVars, compressed_content, fts_index,
                 embeddings, domain_stats, domain_importance, last_priority, snippetVars, now,
                 hybridVars, searchVars, monitor, lock, link_call, ioVars>>

\* db.clear_expired_cache().
CacheClearExpired ==
  /\ cache' = ClearExpiredCache(cache, now).cache
  /\ cache_call' = [op |-> "clear_expired_cache", url |-> NoUrl,
                    result |-> <<ClearExpiredCache(cache, now).rowcount>>]
  /\ UNCHANGED <<crawlerVars, workerVars, storeVars, compressed_content, fts_index,
                 embeddings, domain_stats, domain_importance, last_priority, snippetVars, now,
                 hybridVars, searchVars, monitor, lock, link_call, ioVars>>

\* One tick of the clock passes between two calls.
Tick ==
  /\ now < MaxClock
  /\ now' = now + 1
  /\ UNCHANGED <<crawlerVars, workerVars, storeVars, optimizedVars, last_priority,
                 snippetVars, cache_call, hybridVars, searchVars, monitor, lock, link_call, ioVars>>

CacheNext ==
  \/ \E url \in CacheUrls, expiry_seconds \in ExpirySeconds : CachePut(url, expiry_seconds)
  \/ \E url \in CacheUrls : CacheGet(url)
  \/ CacheClear
  \/ CacheClearExpired
  \/ Tick
CacheSpec == Init /\ [][CacheNext]_vars

\* ------------------------------------------------------------- hybrid search
\* hybrid_search on database files the two engines have filled: n_fts
\* documents indexed by an EnhancedSearchEngine, then possibly
\* SearchEngine.clear_index(), then n_post documents indexed by a
\* SearchEngine.
EmptyStore ==
  [documents |-> {}, index_entries |-> {}, metadata |-> InitialMetadata,
   cache |-> EmptyMap, compressed_content |-> {}, fts_index |-> {},
   embeddings |-> {}, domain_stats |-> EmptyMap, domain_importance |-> EmptyMap]
\* http://h1/d<k>
DocUrl(k) == 100 + k
PageLow == [title |-> <<"python">>, body |-> <<"world">>]
PostingPage(k) == IF k = 1 THEN PageLow ELSE PageD1
FtsPage(k) == IF k % 3 = 0 THEN PageA ELSE IF k % 3 = 1 THEN PageD1 ELSE PageD2

\* add_document for the documents first..last, one after the other.
RECURSIVE EnhancedAddMany(_, _, _)
EnhancedAddMany(st, first, last) ==
  IF first > last THEN st
  ELSE IF first = last
  THEN EnhancedAddDocument(st, DocUrl(first), FtsPage(first).title, FtsPage(first).body)
  ELSE LET mid == (first + last) \div 2
       IN EnhancedAddMany(EnhancedAddMany(st, first, mid), mid + 1, last)
RECURSIVE AddMany(_, _, _)
AddMany(st, first, last) ==
  IF first > last THEN st
  ELSE IF first = last
  THEN AddDocument(st, DocUrl(first), PostingPage(first).title,
                   PostingPage(first).body, Netloc(DocUrl(first)))
  ELSE LET mid == (first + last) \div 2
       IN AddMany(AddMany(st, first, mid), mid + 1, last)
Library(n_fts, cleared, n_post) ==
  LET enhanced == EnhancedAddMany(EmptyStore, 1, n_fts)
  IN  AddMany(IF cleared THEN ClearIndex(enhanced) ELSE enhanced, 1, n_post)

\* Library(n_fts, TRUE, n_post) written out table by table, for files of
\* more documents than the candidate limit.
LargeLibrary(n_fts, n_post) ==
  [documents |->
     {[id |-> k, url |-> DocUrl(k), title |-> PostingPage(k).title,
       content |-> PostingPage(k).body, domain |-> Netloc(DocUrl(k))] : k \in 1..n_post},
   index_entries |->
     UNION {{[word |-> f.word, doc_id |-> k, num |-> f.num, den |-> f.den,
              importance |-> DefaultImportance] :
               f \in WordFrequencies(Tokenize(PostingPage(k).title \o PostingPage(k).body))} :
              k \in 1..n_post},
   metadata |-> [InitialMetadata EXCEPT !.doc_count = n_post],
   cache |-> EmptyMap,
   compressed_content |-> 1..n_fts,
   fts_index |->
     {[rowid |-> k, url |-> DocUrl(k), title |-> FtsPage(k).title,
       content |-> FtsPage(k).body] : k \in 1..n_fts},
   embeddings |-> {},
   domain_stats |-> IF n_fts = 0 THEN EmptyMap
                    ELSE MapPut(EmptyMap, Netloc(DocUrl(1)), n_fts),
   domain_importance |-> IF n_fts = 0 THEN EmptyMap
                         ELSE MapPut(EmptyMap, Netloc(DocUrl(1)), DefaultDomainImportance)]

LibraryShapes ==
  {<<0, FALSE, 0>>, <<2, FALSE, 0>>, <<0, FALSE, 2>>, <<3, TRUE, 3>>, <<3, FALSE, 3>>}
LargeLibraryShapes == {<<101, 100>>, <<101, 101>>}
Libraries ==
  {Library(shape[1], shape[2], shape[3]) : shape \in LibraryShapes}
    \cup {LargeLibrary(shape[1], shape[2]) : shape \in LargeLibraryShapes}
HybridTokens == {<<>>, <<"python">>, <<"world">>}
HybridQueries == {<<"python">>, <<"hello">>, <<"x">>}
HybridPages == {1, 4}
HybridPageSizes == {1, 10}

HybridInit ==
  /\ CrawlerIdle
  /\ \E lib \in Libraries : SetStoreTo(lib)
  /\ SnippetIdle
  /\ PageCacheIdle
  /\ hybrid_call \in [query_tokens : HybridTokens, query_string : HybridQueries,
                      page : HybridPages, results_per_page : HybridPageSizes]
  /\ hybrid_result = <<>>
  /\ SearchIdle
  /\ LinkIdle

\* One db.hybrid_search call on the drawn arguments.
HybridSearchCall ==
  /\ hybrid_result = <<>>
  /\ hybrid_result' = <<HybridSearch(OptimizedStore, hybrid_call.query_tokens,
                                     hybrid_call.query_string, hybrid_call.page,
                                     hybrid_call.results_per_page)>>
  /\ UNCHANGED <<crawlerVars, workerVars, storeVars, optimizedVars, last_priority,
                 snippetVars, pageCacheVars, hybrid_call, searchVars, monitor, lock, link_call, ioVars>>

HybridNext == HybridSearchCall
HybridSpec == HybridInit /\ [][HybridNext]_vars

\* --------------------------------------------------------------- query cache
\* An EnhancedSearchEngine that indexes, searches and clears while the clock
\* runs.
QueryUrls == {2}
QueryPages == {PageD1}
SearchQueries == {<<>>, <<"python">>, <<"x">>}
SearchPages == {1, 2}

\* search_engine.search(query, page=page).
SearchCall(query, page) ==
  LET key == CacheKey(query, "None", page)
      answer == EnhancedSearch(OptimizedStore, query_cache, now, query, "None", page,
                               DefaultResultsPerPage)
  IN  /\ search_call' = [query |-> query, content_type |-> "None", page |-> page,
                          cached |-> answer.cached]
      /\ search_result' = <<[results |-> answer.results, total |-> answer.total]>>
      /\ query_cache' = answer.query_cache
      /\ last_answer' =
           IF answer.query_cache # query_cache
           THEN MapPut(last_answer, key,
                       [time |-> now, results |-> answer.results,
                        total |-> answer.total, cleared |-> FALSE])
           ELSE last_answer
      /\ UNCHANGED <<crawlerVars, workerVars, storeVars, optimizedVars, last_priority,
                     snippetVars, pageCacheVars, hybridVars, monitor, lock, link_call, ioVars>>

QueryNext ==
  \/ \E url \in QueryUrls, page \in QueryPages : EnhancedIndexerAddDocument(url, page)
  \/ \E query \in SearchQueries, page \in SearchPages : SearchCall(query, page)
  \/ EnhancedClearIndex
  \/ Tick
\* The engine opens a new database file.
QueryInit ==
  /\ Init
  /\ crawler_visits = {}
QuerySpec == QueryInit /\ [][QueryNext]_vars

\* ------------------------------------------------------------- the job lock
\* stop_crawl in two steps, with the worker's handling of a 200 response in
\* two steps as well: where the threads may interleave inside them.

\* stop_crawl reaches "with self.lock" and takes the lock.
StopCrawlEnter ==
  /\ io_pc = "idle"
  /\ lock = "free"
  /\ timers < MaxTimers
  /\ lock' = "io"
  /\ io_pc' = "stop_crawl"
  /\ UNCHANGED <<is_crawling, crawl_stats, last_event, last_stats, state_file, timers,
                 stop_requested>>
  /\ StopCrawlFrame

\* The body of stop_crawl, and the release of the lock at its return.
StopCrawlLocked ==
  /\ io_pc = "stop_crawl"
  /\ StopCrawlBody
  /\ StopCrawlFrame
  /\ lock' = "free"
  /\ io_pc' = "idle"

\* The kinds of response whose status code is 200.
OkKinds == {"html", "nonhtml", "parse_error", "store_error"}

\* "self.visited_urls.add(url)  # Mark as visited" of the 200 branch.
WorkerMarkVisited(w) ==
  /\ pc[w] = "fetch"
  /\ \E r \in Responses(cur[w].url) : r.kind \in OkKinds
  /\ visited_urls' = visited_urls \cup {cur[w].url}
  /\ pc' = [pc EXCEPT ![w] = "marked"]
  /\ UNCHANGED <<is_crawling, crawler_thread, crawl_stats, queue, unfinished,
                 force_recrawl, domain_access_times, robots_cache, content_fingerprints,
                 state_file, timers, io_pc, last_event, last_stats, fetches,
                 stop_requested, cur, urls_processed, storeVars, optimizedVars,
                 last_priority, queryVars, monitor, lock>>

\* From "self.crawl_stats["crawled"] += 1" to the end of the iteration.
WorkerAfterMark(w) ==
  /\ pc[w] = "marked"
  /\ \E r \in Responses(cur[w].url) : r.kind \in OkKinds /\ WorkerFetchWith(w, r)

LockNext ==
  \/ \E force \in BOOLEAN : CrawlBegin(2, MaxDepth, FALSE, force)
  \/ CrawlBegin(NoUrl, MaxDepth, TRUE, FALSE)
  \/ CrawlFlag
  \/ StopCrawlEnter
  \/ StopCrawlLocked
  \/ \E w \in Workers : WorkerBegin(w)
  \/ \E w \in Workers : WorkerPop(w)
  \/ \E w \in Workers : WorkerMarkVisited(w)
  \/ \E w \in Workers : WorkerAfterMark(w)
  \/ \E w \in Workers : WorkerFinish(w)

LockSpec == Init /\ [][LockNext]_vars

\* ------------------------------------------------------- _add_links_to_queue
\* A worker inside the iteration of the seed, which it has marked visited,
\* about to call _add_links_to_queue(links, depth) on the links of the page.
LinkLists ==
  { <<>>, <<3, 4, 1, 2>>, <<5, 3, 5>>, <<7, 6, 4>>,
    [i \in 1..MaxLinksPerPage + 1 |-> 5],
    [i \in 1..MaxLinksPerPage + 1 |-> IF i > MaxLinksPerPage THEN 7 ELSE 4] }

LinkInit ==
  /\ is_crawling = TRUE
  /\ crawler_thread = 1
  /\ force_recrawl \in BOOLEAN
  /\ crawl_stats = [FreshStats(2, MaxDepth, force_recrawl) EXCEPT !.crawled = 1]
  /\ visited_urls \in {{2}, {2, 3}}
  /\ queue = <<>>
  /\ unfinished = 1
  /\ domain_access_times = [h \in Hosts |-> 0]
  /\ robots_cache = [h \in Hosts |-> [disallow |-> {}, delay |-> 0]]
  /\ content_fingerprints = EmptyMap
  /\ state_file = <<>>
  /\ timers = 0
  /\ io_pc = "idle"
  /\ last_event = "crawling"
  /\ last_stats = <<>>
  /\ pc = [w \in Workers |-> IF w = 1 THEN "marked" ELSE "unborn"]
  /\ cur = [w \in Workers |-> [url |-> IF w = 1 THEN 2 ELSE NoUrl, depth |-> 0]]
  /\ urls_processed = [w \in Workers |-> IF w = 1 THEN 1 ELSE 0]
  /\ crawler_visits \in {{VisitRow(u, 0, TRUE) : u \in S} : S \in {{}, {3}, {5}}}
  /\ fetches = EmptyMap
  /\ stop_requested = FALSE
  /\ last_priority = [w \in Workers |-> IF w = 1 THEN MinPriority ELSE 0]
  /\ monitor = SetupThreadMonitor
  /\ lock = "free"
  /\ frames = <<>>
  /\ callbacks = <<>>
  /\ EmptyDb
  /\ SnippetIdle
  /\ PageCacheIdle
  /\ HybridIdle
  /\ SearchIdle
  /\ link_call \in [links : LinkLists, current_depth : {0}, returned : {<<>>}]

\* _add_links_to_queue(links, current_depth), called by worker 1.
AddLinksToQueue ==
  /\ link_call.returned = <<>>
  /\ LET entries == LinkEntries(link_call.links, visited_urls, link_call.current_depth)
     IN /\ queue' = PutAll(queue, entries)
        /\ unfinished' = unfinished + Len(entries)
        /\ crawl_stats' = [crawl_stats EXCEPT !.queued = @ + Len(entries)]
        /\ link_call' = [link_call EXCEPT !.returned = <<Len(entries)>>]
  /\ UNCHANGED <<is_crawling, crawler_thread, visited_urls, force_recrawl,
                 domain_access_times, robots_cache, content_fingerprints, state_file,
                 timers, io_pc, last_event, last_stats, fetches, stop_requested,
                 workerVars, storeVars, optimizedVars, last_priority, snippetVars,
                 pageCacheVars, hybridVars, searchVars, ioVars, monitor, lock>>

LinkNext == AddLinksToQueue

LinkSpec == LinkInit /\ [][LinkNext]_vars

\* ===================================================================== claims
AliveWorkers == {w \in Workers : Alive(w)}

\* C1: a single crawl job is active at any time: at most one worker thread
\* that has been started has not yet exited.
C1_SingleJob == Cardinality(AliveWorkers) <= 1

\* C2: resume continues draining the frontier of the snapshot: the worker of
\* the current job leaves its loop while frontier entries remain and its URL
\* limit is not reached only if stop() was called on that job.
C2_ResumeDrains ==
  [][\A w \in Workers :
       (/\ w = crawler_thread
        /\ pc[w] = "loop" /\ pc'[w] = "done"
        /\ queue # <<>>
        /\ urls_processed[w] < max_urls)
       => stop_requested]_vars

\* C3: when the worker leaves its loop having observed status stopping, the
\* job's status moves from stopping to stopped and is_running is false.
C3_StoppingToStopped ==
  [][\A w \in Workers :
       (pc[w] = "loop" /\ pc'[w] = "done" /\ crawl_stats.status = "stopping")
       => (crawl_stats'.status = "stopped" /\ ~is_crawling')]_vars

\* C4: after force_stop() has returned (is_running false, status
\* force_stopped), the completion of a fetch that was in flight indexes no
\* document, pushes no link and changes no stats counter.
C4_ForceStopDiscards ==
  [][\A w \in Workers :
       (/\ pc[w] = "fetch" /\ pc'[w] = "loop"
        /\ ~is_crawling
        /\ crawl_stats.status = "force_stopped")
       => (/\ documents' = documents
           /\ index_entries' = index_entries
           /\ queue' = queue
           /\ crawl_stats' = crawl_stats)]_vars

\* min_delay(host) of the rate limiter: max(min_crawl_delay, Crawl-delay) when
\* the host's robots.txt declares a crawl delay, min_crawl_delay otherwise.
MinDelay(h) ==
  IF h \in DOMAIN robots_cache /\ robots_cache[h].delay > 0
  THEN Max(min_crawl_delay, robots_cache[h].delay)
  ELSE min_crawl_delay

\* C5: any two successive fetches to the same host are at least
\* min_delay(host) seconds apart.
C5_RateLimit == \A h \in DOMAIN fetches : fetches[h].gap >= MinDelay(h)

\* The step of worker w is a pop of the frontier's head.
Pops(w) ==
  /\ pc[w] = "loop"
  /\ queue # <<>>
  /\ urls_processed'[w] = urls_processed[w] + 1

\* C6: a popped URL that robots.txt does not allow is not fetched,
\* robots_blocked grows by exactly 1, the URL is recorded as visited, and
\* crawled, indexed and errors are unchanged; a job whose only URL was
\* blocked ends with status completed.
C6_RobotsBlocked ==
  [][\A w \in Workers :
       /\ (/\ Pops(w)
           /\ Head(queue)[2] \notin visited_urls
           /\ ~SkipAsVisitedInDb(Head(queue)[2])
           /\ ~RobotsAllows(robots_cache'[Netloc(Head(queue)[2])], Head(queue)[2]))
          => (/\ pc'[w] = "loop"
              /\ fetches' = fetches
              /\ crawl_stats'.robots_blocked = crawl_stats.robots_blocked + 1
              /\ Head(queue)[2] \in visited_urls'
              /\ crawl_stats'.crawled = crawl_stats.crawled
              /\ crawl_stats'.indexed = crawl_stats.indexed
              /\ crawl_stats'.errors = crawl_stats.errors)
       /\ (/\ pc[w] = "loop" /\ pc'[w] = "done"
           /\ crawl_stats.status = "running"
           /\ crawl_stats.queued = 1
           /\ crawl_stats.robots_blocked = 1)
          => crawl_stats'.status = "completed"]_vars

\* C7: two URLs serving identical content yield one document: no two
\* documents of the index have the same title and text.
C7_NoDuplicateDocument ==
  \A d1 \in documents : \A d2 \in documents :
    (d1.title = d2.title /\ d1.content = d2.content) => d1.url = d2.url

\* C8: a URL popped while the persistent visit log holds it and force_recrawl
\* is false is neither fetched nor indexed again.
C8_VisitedNotRefetched ==
  [][\A w \in Workers :
       (/\ Pops(w)
        /\ IsUrlVisited(Head(queue)[2])
        /\ ~force_recrawl)
       => (/\ pc'[w] = "loop"
           /\ fetches' = fetches
           /\ documents' = documents
           /\ index_entries' = index_entries
           /\ crawl_stats'.crawled = crawl_stats.crawled
           /\ crawl_stats'.indexed = crawl_stats.indexed)]_vars

\* A worker has popped a URL held by the visit log, with force_recrawl false,
\* and nothing has been fetched.
C8_Witness ==
  \E w \in Workers : \E u \in Urls :
    /\ urls_processed[w] > 0
    /\ u \in visited_urls
    /\ IsUrlVisited(u)
    /\ ~force_recrawl
    /\ fetches = EmptyMap
    /\ crawl_stats.robots_blocked = 0

\* C9: when the crawl loop terminally resolves a URL (the fetch has succeeded
\* or failed, or robots.txt has blocked it), the visit log holds a row for
\* that URL.
C9_VisitWritten ==
  [][\A w \in Workers :
       /\ (pc[w] = "fetch" /\ pc'[w] = "loop")
          => \E r \in crawler_visits' : r.url = cur[w].url
       /\ (/\ Pops(w)
           /\ crawl_stats'.robots_blocked = crawl_stats.robots_blocked + 1
           /\ pc'[w] = "loop")
          => \E r \in crawler_visits' : r.url = Head(queue)[2]]_vars

\* C10: add_document preserves the doc_id of a URL already stored.
C10_DocIdPreserved ==
  [][\A d \in documents : \A e \in documents' :
       e.url = d.url => e.id = d.id]_vars

\* The postings of the document doc_id, without the doc_id.
PostingsOf(entries, doc_id) ==
  {[word |-> e.word, num |-> e.num, den |-> e.den] : e \in {x \in entries : x.doc_id = doc_id}}

\* C11: when a stored URL is added again with a different text, the index
\* holds for that URL exactly the postings of the second call: none of the
\* postings written for the replaced document remains.
C11_ReAddLeavesNoResidue ==
  [][\A url \in StoreUrls \ {NoUrl} : \A page \in StorePages : \A d \in documents :
       (/\ IndexerAddDocument(url, page)
        /\ page.body # <<>>
        /\ d.url = url
        /\ d.content # page.body)
       => LET id == NewDocId(documents, url) IN
            /\ PostingsOf(index_entries', id)
                 = WordFrequencies(Tokenize(page.title \o page.body))
            /\ id # d.id => PostingsOf(index_entries', d.id) = {}]_vars

\* C12: every posting's doc_id is the id of an existing document.
C12_PostingsResolve ==
  \A e \in index_entries : \E d \in documents : d.id = e.doc_id

\* C13: after each successful add_document, for a new URL or for one already
\* stored, doc_count equals the number of documents in the store.
C13_DocCountMatches ==
  [][\A url \in StoreUrls \ {NoUrl} : \A page \in StorePages :
       (/\ IndexerAddDocument(url, page) \/ EnhancedIndexerAddDocument(url, page)
        /\ documents' # documents)
       => metadata'.doc_count = Cardinality(documents')]_vars

\* C14: with no worker running, save_state followed by load_state restores
\* the visited set, the frontier's entries with their priorities and depths,
\* the stats counters, the hosts' last access times and the fingerprint table
\* as they were at the save: the file a save writes loads back to the fields
\* it was taken from, only a save changes the file, and a load sets the
\* fields to what the file loads to.
C14_SnapshotRoundTrip ==
  [][/\ SaveStateCall => (state_file' # <<>> /\ LoadState(state_file'[1]) = Snapshot)
     /\ ~SaveStateCall => state_file' = state_file
     /\ (LoadStateCall /\ state_file # <<>>) => Snapshot' = LoadState(state_file[1])]_vars

\* A new process has loaded the file of a stopped job: the five fields are
\* those of the file, none of them empty, and the robots cache, which no
\* file holds, is empty.
C14_Witness ==
  /\ AliveWorkers = {}
  /\ state_file # <<>>
  /\ Snapshot = LoadState(state_file[1])
  /\ robots_cache = EmptyMap
  /\ visited_urls # {}
  /\ Len(queue) >= 2
  /\ crawl_stats.status # "idle"
  /\ domain_access_times # EmptyMap
  /\ content_fingerprints # EmptyMap

\* C15: within a single worker, the priorities of two successive pops p1
\* then p2 satisfy p1 <= p2.
C15_PriorityMonotone ==
  [][\A w \in Workers :
       (Pops(w) /\ last_priority[w] > 0) => last_priority[w] <= Head(queue)[1]]_vars

\* C16: a URL is popped at most once across a job, also when several links
\* reference it: no pop takes a URL that the job's visited set holds (the
\* set is emptied when a job starts and receives only URLs the job popped).
C16_PoppedOnce ==
  [][\A w \in Workers : Pops(w) => Head(queue)[2] \notin visited_urls]_vars

\* C17: after an indexer entry point (SearchEngine.add_document or
\* EnhancedSearchEngine.add_document) adds (url, title, body) whose token list
\* is not empty, the store holds exactly one posting per distinct token of
\* tokenize(title + ' ' + body) for that document, with frequency =
\* occurrences of the token / total token count.
C17_PostingsPerToken ==
  [][\A url \in StoreUrls \ {NoUrl} : \A page \in StorePages :
       (/\ IndexerAddDocument(url, page) \/ EnhancedIndexerAddDocument(url, page)
        /\ page.body # <<>>
        /\ Tokenize(page.title \o page.body) # <<>>)
       => PostingsOf(index_entries', NewDocId(documents, url))
            = WordFrequencies(Tokenize(page.title \o page.body))]_vars

\* The importance of a posting whose term appears in the title, in tenths.
TitleImportance == 15

\* C18: a posting whose term also appears in tokenize(title) has importance
\* 1.5 and every other posting has importance 1.0; and when D1 (title
\* 'python', body 'x') and D2 (title 'x', body 'python python') are both
\* found by the query 'python', both score above 0 and D1 scores strictly
\* above D2.
C18_TitleImportance ==
  /\ \A e \in index_entries : \A d \in documents :
       d.id = e.doc_id
         => e.importance = IF e.word \in Range(Tokenize(d.title))
                           THEN TitleImportance ELSE DefaultImportance
  /\ \A d1 \in DbSearchMatches(Store, <<"python">>) :
       \A d2 \in DbSearchMatches(Store, <<"python">>) :
         (/\ d1.title = PageD1.title /\ d1.content = PageD1.body
          /\ d2.title = PageD2.title /\ d2.content = PageD2.body)
         => /\ DbSearchScore(Store, d2.id, <<"python">>) > 0
            /\ DbSearchScore(Store, d1.id, <<"python">>)
                 > DbSearchScore(Store, d2.id, <<"python">>)

\* C19: add_document with a missing url or an empty body is a no-op for
\* every indexer entry point: documents, postings and doc_count are left
\* unchanged.
C19_RejectedAddIsNoOp ==
  [][\A url \in StoreUrls : \A page \in StorePages :
       (/\ IndexerAddDocument(url, page) \/ EnhancedIndexerAddDocument(url, page)
        /\ url = NoUrl \/ page.body = <<>>)
       => (/\ documents' = documents
           /\ index_entries' = index_entries
           /\ metadata'.doc_count = metadata.doc_count)]_vars

\* C20: after clear_index the documents, postings, page-cache, FTS and
\* embeddings tables are empty, every domain's page counter is 0 and
\* doc_count is 0.
C20_ClearIndexEmpties ==
  [][(IndexerClearIndex \/ EnhancedClearIndex)
       => (/\ documents' = {}
           /\ index_entries' = {}
           /\ DOMAIN cache' = {}
           /\ fts_index' = {}
           /\ embeddings' = {}
           /\ \A domain \in DOMAIN domain_stats' : domain_stats'[domain] = 0
           /\ metadata'.doc_count = 0)]_vars

\* token in text, case-insensitively.
Occurs(text, token) ==
  \E p \in 1..(Len(text) - Len(token) + 1) :
    \A k \in 1..Len(token) : LowerChar(text[p + k - 1]) = token[k]
SomeTermIn(text) ==
  \E t \in DOMAIN snippet_call.query_tokens : Occurs(text, snippet_call.query_tokens[t])

C22_PageCacheTtl ==
  [][/\ (cache_call'.op = "get_cached_page" /\ now' = now /\ cache_call'.result # <<>>)
          => /\ cache_call'.url \in DOMAIN cache
             /\ cache[cache_call'.url] >= now
             /\ cache_call'.result = <<cache[cache_call'.url]>>
     /\ (cache_call'.op = "clear_expired_cache" /\ now' = now)
          => /\ DOMAIN cache' = {u \in DOMAIN cache : ~(cache[u] < now)}
             /\ \A u \in DOMAIN cache' : cache'[u] = cache[u]
             /\ cache_call'.result = <<Cardinality({u \in DOMAIN cache : cache[u] < now})>>
     /\ (cache_call'.op = "clear_cache" /\ now' = now) => DOMAIN cache' = {}]_vars

\* clear_expired_cache has just removed one entry and left another, which a
\* lookup would still return.
C22_Witness ==
  /\ cache_call.op = "clear_expired_cache"
  /\ cache_call.result = <<1>>
  /\ \E u \in DOMAIN cache : GetCachedPage(cache, u, now) # <<>>

\* The documents SearchDatabase.search matches for the call's tokens, and
\* those of them that fewer than 100 others outscore.
PostingMatches ==
  IF hybrid_call.query_tokens = <<>> THEN {}
  ELSE DbSearchMatches(OptimizedStore, hybrid_call.query_tokens)
InTop100(d) ==
  Cardinality({o \in PostingMatches :
                 DbSearchScore(OptimizedStore, o.id, hybrid_call.query_tokens)
                   > DbSearchScore(OptimizedStore, d.id, hybrid_call.query_tokens)})
    < CandidateLimit

\* C23: hybrid_search returns only documents that are among the top <= 100
\* by posting score and whose fts_index row matches the query expression,
\* in the order of their full-text rank; when the postings match no
\* document it returns what fts_search returns for the same expression,
\* page and page size.
C23_HybridSearch ==
  hybrid_result # <<>> =>
    LET rows == hybrid_result[1].results IN
    IF PostingMatches = {}
    THEN hybrid_result[1] = FtsSearch(OptimizedStore, hybrid_call.query_string,
                                      hybrid_call.page, hybrid_call.results_per_page)
    ELSE /\ \A i \in DOMAIN rows :
              /\ \E d \in PostingMatches : d.id = rows[i].id /\ InTop100(d)
              /\ \E r \in fts_index :
                   /\ r.rowid = rows[i].id
                   /\ FtsMatch(r, hybrid_call.query_string)
                   /\ rows[i].score = FtsRank(r, hybrid_call.query_string)
         /\ \A i, j \in DOMAIN rows : i < j => rows[i].score <= rows[j].score

\* A call that returned ten rows of different ranks although a document
\* outside the top 100 by posting score matches the expression as well.
C23_Witness ==
  /\ hybrid_result # <<>>
  /\ Len(hybrid_result[1].results) = 10
  /\ hybrid_result[1].results[1].score < hybrid_result[1].results[10].score
  /\ \E d \in PostingMatches :
       /\ ~InTop100(d)
       /\ \E r \in fts_index : r.rowid = d.id /\ FtsMatch(r, hybrid_call.query_string)

FaultKinds == {"net_error", "http_error", "parse_error", "store_error"}
C25_FaultsCounted ==
  [][\A w \in Workers, kind \in FaultKinds :
       (/\ pc[w] = "fetch"
        /\ kind \in FetchOutcomes(cur[w].url)
        /\ WorkerFetchWith(w, [kind |-> kind, page |-> EmptyPage]))
         => /\ crawl_stats'.errors = crawl_stats.errors + 1
            /\ cur[w].url \in visited_urls'
            /\ queue' = queue
            /\ pc'[w] = "loop"]_vars

\* C26: a worker pops at most max_urls frontier entries; when a worker ends
\* and its job was not asked to stop, the status is "terminated" if it has
\* popped max_urls entries and "completed" if the frontier emptied before.
C26_SafetyCap ==
  [][\A w \in Workers :
       /\ urls_processed'[w] <= max_urls
       /\ (pc[w] # "done" /\ pc'[w] = "done" /\ ~stop_requested)
            => crawl_stats'.status =
                 IF urls_processed[w] >= max_urls THEN "terminated" ELSE "completed"]_vars

\* C27: a call of the health check is always pending with a delay of 30 s, and
\* every run of the health check that finds is_crawling set and the worker
\* thread dead clears is_crawling, sets the status to "reset" and emits a
\* "reset" event.
C27_Supervisor ==
  /\ [](monitor = <<30>>)
  /\ [][\A stale \in BOOLEAN :
          (/\ HealthCheck(stale)
           /\ is_crawling
           /\ crawler_thread = NoThread \/ ~Alive(crawler_thread))
            => /\ ~is_crawling'
               /\ crawl_stats'.status = "reset"
               /\ last_event' = "reset"]_vars

\* The health check has reset a job whose thread had died with the flag set.
C27_Witness ==
  /\ crawl_stats.status = "reset"
  /\ last_event = "reset"
  /\ ~is_crawling
  /\ crawler_thread # NoThread
  /\ monitor = <<30>>

\* The statuses at which a job has come to rest.
TerminalStatuses == {"completed", "terminated", "force_stopped", "error", "reset"}

\* C28: every step by which a job reaches a terminal state (its status becomes
\* completed, terminated, force_stopped, error or reset, or its worker thread
\* ends, which is how a stopped job ends) emits an event whose status tag is
\* the status of the job and which carries the stats as they are then.
C28_FinalEvent ==
  [][(/\ crawler_thread' # NoThread
      /\ \/ /\ crawl_stats'.status # crawl_stats.status
            /\ crawl_stats'.status \in TerminalStatuses
         \/ \E w \in Workers : pc[w] # "done" /\ pc'[w] = "done")
        => /\ last_event' = crawl_stats'.status
           /\ last_stats' = <<crawl_stats'>>]_vars

\* C29: the worker's writes to visited_urls, content_fingerprints and
\* crawl_stats exclude the reads of a snapshot: while stop_crawl holds the job
\* lock, no step of a worker thread changes any of the three.
C29_MutualExclusion ==
  [][(lock = "io" /\ pc' # pc)
       => UNCHANGED <<visited_urls, content_fingerprints, crawl_stats>>]_vars

\* C30: every entry pushed by one _add_links_to_queue call has a URL that
\* begins with http:// or https://, whose path has no excluded extension,
\* that is not in visited_urls and, unless force_recrawl is set, not in the
\* visit log either; the call pushes at most 100 entries.
C30_LinkFilter ==
  link_call.returned # <<>> =>
    /\ Len(queue) <= 100
    /\ \A i \in 1..Len(queue) :
         LET u == queue[i][2]
         IN /\ IsHttp(u)
            /\ ~BadExtension(u)
            /\ u \notin visited_urls
            /\ force_recrawl \/ ~(\E r \in crawler_visits : r.url = u)

\* A page with 101 acceptable links has had exactly 100 of them pushed.
C30_Witness ==
  /\ link_call.returned = <<100>>
  /\ Len(link_call.links) = 101
  /\ Len(queue) = 100

\* The document d holds a token of the query in its title or its content.
Mentions(d, query) ==
  \E i \in DOMAIN Tokenize(query) :
    \/ \E j \in DOMAIN d.title : Lower(d.title[j]) = Tokenize(query)[i]
    \/ \E j \in DOMAIN d.content : Lower(d.content[j]) = Tokenize(query)[i]

\* C31: every row a search returns is a document of the store at the time of
\* the call, so a query whose tokens match no stored document returns no row
\* and a total of 0.
C31_OnlyStoredDocuments ==
  [][\A query \in SearchQueries, page \in SearchPages :
       SearchCall(query, page) =>
         /\ \A i \in DOMAIN search_result'[1].results :
              \E d \in documents : d.id = search_result'[1].results[i].id
         /\ (\A d \in documents : ~Mentions(d, query))
              => search_result'[1] = [results |-> <<>>, total |-> 0]]_vars

\* C32: every pop from the frontier returns an entry whose priority is the
\* least of the priorities of the entries in the frontier at the pop.
C32_PopsLeastPriority ==
  [][\A w \in Workers :
       urls_processed'[w] # urls_processed[w] =>
         /\ Len(queue') = Len(queue) - 1
         /\ \A i \in DOMAIN queue : last_priority'[w] <= queue[i][1]]_vars

\* A worker has popped an entry that was pushed after an entry of greater
\* priority value, which is still in the frontier.
C32_Witness ==
  \E w \in Workers :
    /\ pc[w] = "fetch"
    /\ cur[w].depth = 2
    /\ \E i \in DOMAIN queue : queue[i][3] = 1 /\ queue[i][1] > last_priority[w]

\* ------------------------------------------------- the depth of the entries
\* The handling of a 200 response of an HTML page in two steps, where crawl()
\* may run between the test of the depth and the pushes of the links.

\* From "self.visited_urls.add(url)" to a true "if depth < max_depth".
WorkerTestDepth(w) ==
  /\ pc[w] = "fetch"
  /\ cur[w].depth < crawl_stats.max_depth
  /\ \E r \in Responses(cur[w].url) :
       /\ r.kind = "html"
       /\ LET st == AddDocument(Store, cur[w].url, r.page.title, r.page.body,
                                Netloc(cur[w].url))
          IN /\ documents' = st.documents
             /\ index_entries' = st.index_entries
             /\ metadata' = st.metadata
  /\ visited_urls' = visited_urls \cup {cur[w].url}
  /\ crawl_stats' = [crawl_stats EXCEPT !.crawled = @ + 1, !.indexed = @ + 1]
  /\ pc' = [pc EXCEPT ![w] = "linking"]
  /\ UNCHANGED <<is_crawling, crawler_thread, queue, unfinished, force_recrawl,
                 domain_access_times, robots_cache, content_fingerprints, state_file,
                 timers, io_pc, last_event, last_stats, fetches, stop_requested, cur,
                 urls_processed, crawler_visits, optimizedVars, last_priority,
                 queryVars, monitor, lock>>

\* extract_links and _add_links_to_queue(links, depth), then the progress
\* message and task_done.
WorkerAddLinks(w) ==
  /\ pc[w] = "linking"
  /\ LET entries == LinkEntries(Links(cur[w].url), visited_urls, cur[w].depth)
         s1 == [crawl_stats EXCEPT !.queued = @ + Len(entries)]
         n1 == unfinished + Len(entries)
     IN /\ queue' = PutAll(queue, entries)
        /\ unfinished' = AfterTaskDone(n1)
        /\ last_event' = "progress"
        /\ last_stats' = <<s1>>
        /\ crawl_stats' = IF TaskDoneOk(n1) THEN s1 ELSE [s1 EXCEPT !.errors = @ + 1]
  /\ pc' = [pc EXCEPT ![w] = "loop"]
  /\ UNCHANGED <<is_crawling, crawler_thread, visited_urls, force_recrawl,
                 domain_access_times, robots_cache, content_fingerprints, state_file,
                 timers, io_pc, fetches, stop_requested, cur, urls_processed,
                 crawler_visits, storeVars, optimizedVars, last_priority, queryVars,
                 monitor, lock>>

DepthNext ==
  \/ \E depth \in 1..FrontierDepth : CrawlBegin(5, depth, FALSE, FALSE)
  \/ CrawlFlag
  \/ ForceStop
  \/ \E w \in Workers : WorkerBegin(w)
  \/ \E w \in Workers : WorkerPop(w)
  \/ \E w \in Workers : WorkerFetch(w)
  \/ \E w \in Workers : WorkerTestDepth(w)
  \/ \E w \in Workers : WorkerAddLinks(w)
  \/ \E w \in Workers : WorkerFinish(w)

DepthSpec == Init /\ [][DepthNext]_vars

\* The number of times the entry e is in the frontier q.
Copies(q, e) == Cardinality({i \in DOMAIN q : q[i] = e})

\* C33: entries are pushed only by a worker whose page has a depth below
\* max_depth, each with the depth of that page plus 1, and every entry of
\* the frontier has a depth of at most max_depth.
C33_DepthBound ==
  /\ [](\A i \in DOMAIN queue : queue[i][3] <= crawl_stats.max_depth)
  /\ [][\A w \in Workers :
          (pc[w] \in {"fetch", "linking"} /\ pc'[w] = "loop") =>
            \A i \in DOMAIN queue' :
              Copies(queue', queue'[i]) > Copies(queue, queue'[i]) =>
                /\ cur[w].depth < crawl_stats.max_depth
                /\ queue'[i][3] = cur[w].depth + 1]_vars

\* C34: once crawl() has returned, is_crawling is true only while a worker
\* thread is alive: the worker's clearing of the flag at its exit is not
\* overwritten by the assignment crawl() makes after the thread start.
C34_FlagOnlyWhileAlive ==
  (io_pc = "idle" /\ is_crawling) => \E w \in Workers : Alive(w)

\* C35: the force-stop timer armed by stop_crawl acts on the job it was armed
\* for only: when it fires after that job's worker has exited and a new job,
\* for which no stop was requested, has been started, it leaves is_crawling
\* set and emits no force_stopped event.
C35_TimerOwnJob ==
  [][(/\ TimerForceStop
      /\ is_crawling
      /\ ~stop_requested
      /\ \A w \in Workers : Alive(w) => w = crawler_thread)
       => (is_crawling' /\ last_event' # "force_stopped")]_vars

\* C36: in a job run by a single worker no url is fetched twice: a url that
\* reaches the fetch step was not in the visited set, the fetch step adds it
\* to the set, and the set loses no url while the job lasts.
C36_FetchedOnce ==
  [][/\ \A w \in Workers :
          /\ (pc[w] = "loop" /\ pc'[w] = "fetch") => cur'[w].url \notin visited_urls
          /\ (pc[w] = "fetch" /\ pc'[w] = "loop") => cur[w].url \in visited_urls'
     /\ (\A w \in Workers : pc'[w] = "start" => pc[w] = "start")
          => visited_urls \subseteq visited_urls']_vars

\* A forced job has fetched the seed and /g/p, which the seed links twice, and
\* its third pop, of the second entry of /g/p, was skipped.
C36_Witness ==
  \E w \in Workers :
    /\ urls_processed[w] = 3
    /\ crawl_stats.force_recrawl
    /\ crawl_stats.crawled = 2
    /\ visited_urls = {5, 6}
    /\ queue = <<>>

\* SearchEngine.add_document returns a document id: it returns None at once
\* "if not url or not content".
AddDocumentReturnsId(url, content) == ~(url = NoUrl \/ content = <<>>)

\* C37: the indexed counter grows by 1 in the handling of a response exactly
\* when the indexer stored a document for it: an add_document call that
\* returns no id, or raises, leaves the counter as it is.
C37_IndexedCountsStored ==
  [][\A w \in Workers :
       pc[w] = "fetch" =>
         \A r \in Responses(cur[w].url) :
           WorkerFetchWith(w, r) =>
             crawl_stats'.indexed = crawl_stats.indexed +
               (IF r.kind = "html" /\ AddDocumentReturnsId(cur[w].url, r.page.body)
                THEN 1 ELSE 0)]_vars

\* ------------------------------------------------- the importance of a domain
\* Documents added through an EnhancedSearchEngine, whose database is an
\* OptimizedSearchDatabase, and importances set on the domains.
Domains == {"h1", "h2"}
Importances == {5, 20}

\* db.update_domain_importance(domain, importance): UPDATE domain_stats SET
\* importance = ? WHERE domain = ?.
UpdateDomainImportance(domain, importance) ==
  /\ domain_importance' =
       IF domain \in DOMAIN domain_importance
       THEN MapPut(domain_importance, domain, importance)
       ELSE domain_importance
  /\ UNCHANGED <<crawlerVars, workerVars, storeVars, cache, compressed_content,
                 fts_index, embeddings, domain_stats, last_priority, queryVars,
                 monitor, lock>>

DomainNext ==
  \/ \E url \in StoreUrls, page \in StorePages : EnhancedIndexerAddDocument(url, page)
  \/ \E domain \in Domains, importance \in Importances :
       UpdateDomainImportance(domain, importance)
  \/ EnhancedClearIndex

DomainSpec == Init /\ [][DomainNext]_vars

\* C38: add_document of the OptimizedSearchDatabase leaves the importance of
\* every domain of domain_stats as it was: an importance set with
\* update_domain_importance survives any number of later add_document calls.
C38_ImportanceKept ==
  [][\A url \in StoreUrls, page \in StorePages :
       EnhancedIndexerAddDocument(url, page) =>
         \A domain \in DOMAIN domain_importance :
           domain_importance'[domain] = domain_importance[domain]]_vars

\* ------------------------------------------------- the calls that take the lock
\* The methods that enter "with self.lock" and the calls they make, as the
\* I/O loop runs them: a call is the sequence of the steps of one of its
\* paths, a step being the entry of "with self.lock", its exit, a call of
\* another method, or the scheduling of a callback.
MaxPending == 3
Acquire == <<"acquire", "">>
Release == <<"release", "">>
Call(op) == <<"call", op>>
Schedule(op) == <<"schedule", op>>

\* A broadcast that runs send_to_clients at once.
BroadcastInline == {<<Call("send_to_clients")>>}

\* _broadcast_update: nothing without clients, else add_callback of
\* send_to_clients.
BroadcastUpdate == {<<>>, <<Schedule("send_to_clients")>>}

\* The paths of each method and callback.
Body(op) ==
  CASE op = "_broadcast_update" -> BroadcastUpdate
    [] op = "crawl" -> {<<Acquire, Call("_broadcast_update"), Release>>}
    [] op = "stop_crawl" ->
         {<<Acquire, Release>>,
          <<Acquire, Call("_broadcast_update"), Release>>,
          <<Acquire, Call("_broadcast_update"), Schedule("force_stop_timer"), Release>>}
    [] op = "force_stop_timer" -> {<<>>, <<Call("_broadcast_update")>>}
    [] op = "force_stop" -> {<<Acquire, Call("_broadcast_update"), Release>>}
    [] op = "_reset_crawler_state" -> {<<Acquire, Call("_broadcast_update"), Release>>}
    [] op = "check_thread_health" ->
         {<<>>, <<Call("_reset_crawler_state")>>, <<Call("_broadcast_update")>>}
    [] op = "get_stats" -> {<<Acquire, Release>>}
    [] op = "register_client" ->
         {<<Acquire, Release>>, <<Acquire, Schedule("send_initial_data"), Release>>}
    [] op = "unregister_client" -> {<<Acquire, Release>>}
    [] op = "send_to_clients" ->
         {<<Acquire, Release>>, <<Acquire, Release, Call("unregister_client")>>}
    [] op = "send_initial_data" ->
         {<<Call("get_stats")>>,
          <<Call("get_stats"), Call("unregister_client")>>,
          <<Call("get_stats"), Schedule("ping")>>}
    [] op = "ping" -> {<<>>, <<Call("unregister_client")>>}

\* The methods the request handlers and the periodic callback call.
EntryOps ==
  {"crawl", "stop_crawl", "force_stop", "get_stats", "register_client",
   "unregister_client", "check_thread_health"}

MutexFrame ==
  UNCHANGED <<crawlerVars, workerVars, storeVars, optimizedVars, last_priority,
              snippetVars, pageCacheVars, hybridVars, searchVars, linkVars, monitor>>

\* The I/O loop calls a method.
IoEnter(op) ==
  /\ frames = <<>>
  /\ Len(callbacks) + 2 <= MaxPending
  /\ \E path \in Body(op) : frames' = <<path>>
  /\ UNCHANGED <<lock, callbacks>>
  /\ MutexFrame

\* The I/O loop runs one of the pending callbacks.
IoCallback ==
  /\ frames = <<>>
  /\ \E i \in DOMAIN callbacks :
       /\ \E path \in Body(callbacks[i]) : frames' = <<path>>
       /\ callbacks' = SubSeq(callbacks, 1, i - 1) \o SubSeq(callbacks, i + 1, Len(callbacks))
  /\ UNCHANGED lock
  /\ MutexFrame

\* The innermost call takes its next step, or returns.
IoStep ==
  /\ frames # <<>>
  /\ LET n == Len(frames)
         top == frames[n]
         rest == SubSeq(frames, 1, n - 1)
     IN IF top = <<>>
        THEN /\ frames' = rest
             /\ UNCHANGED <<lock, callbacks>>
        ELSE LET step == Head(top)
                 after == Append(rest, Tail(top))
             IN CASE step[1] = "acquire" ->
                       /\ lock = "free"
                       /\ lock' = "io"
                       /\ frames' = after
                       /\ UNCHANGED callbacks
                  [] step[1] = "release" ->
                       /\ lock' = "free"
                       /\ frames' = after
                       /\ UNCHANGED callbacks
                  [] step[1] = "call" ->
                       /\ \E path \in Body(step[2]) : frames' = Append(after, path)
                       /\ UNCHANGED <<lock, callbacks>>
                  [] step[1] = "schedule" ->
                       /\ callbacks' = Append(callbacks, step[2])
                       /\ frames' = after
                       /\ UNCHANGED lock
  /\ MutexFrame

\* The worker thread calls _broadcast_update, which takes no lock.
WorkerBroadcast ==
  /\ Len(callbacks) < MaxPending
  /\ callbacks' = Append(callbacks, "send_to_clients")
  /\ UNCHANGED <<lock, frames>>
  /\ MutexFrame

MutexNext ==
  \/ \E op \in EntryOps : IoEnter(op)
  \/ IoCallback
  \/ IoStep
  \/ WorkerBroadcast

MutexSpec == Init /\ [][MutexNext]_vars

\* C39: no call that is inside "with self.lock" reaches an entry of "with
\* self.lock" again, so the innermost call can always take its next step,
\* and the lock is held only while a call is on the stack.
C39_NoDeadlock ==
  /\ lock = "io" => frames # <<>>
  /\ (frames # <<>> /\ frames[Len(frames)] # <<>> /\ Head(frames[Len(frames)]) = Acquire)
       => lock = "free"

\* A method holds the lock while a method it called is running.
C39_Witness ==
  /\ lock = "io"
  /\ Len(frames) = 2
  /\ callbacks # <<>>

\* ------------------------------------------------------- jobs under fairness
\* Jobs on the pages under /g, every request of which returns, with the
\* periodic health check.  A thread that can take a step takes it in the end,
\* the I/O loop goes on with a crawl() it has begun, and the health check
\* comes round again.
LiveNext ==
  \/ \E depth \in 1..FrontierDepth, force \in BOOLEAN : CrawlBegin(5, depth, FALSE, force)
  \/ CrawlFlag
  \/ \E stale \in BOOLEAN : HealthCheck(stale)
  \/ \E w \in Workers : WorkerBegin(w)
  \/ \E w \in Workers : WorkerPop(w)
  \/ \E w \in Workers : WorkerFetch(w)
  \/ \E w \in Workers : WorkerFinish(w)

Fairness ==
  /\ \A w \in Workers :
       WF_vars(WorkerBegin(w) \/ WorkerPop(w) \/ WorkerFetch(w) \/ WorkerFinish(w))
  /\ WF_vars(CrawlFlag)
  /\ WF_vars(\E stale \in BOOLEAN : HealthCheck(stale))

LiveSpec == Init /\ [][LiveNext]_vars /\ Fairness

\* The statuses of a job that has left "running".
LeftRunning == {"completed", "terminated", "stopping", "stopped", "error"}

\* C40: under fair scheduling a started job leaves "running" in the end: no
\* worker is alive, is_crawling is false and the status is completed,
\* terminated, stopping, stopped or error.
C40_JobEnds ==
  is_crawling ~>
    (/\ ~is_crawling
     /\ \A w \in Workers : ~Alive(w)
     /\ crawl_stats.status \in LeftRunning)

====
